---- MODULE Spec2Model ----
(***************************************************************************)
(* A model of zeta, a compiler from an extended Markdown dialect to the    *)
(* Zenn and Qiita dialects: the Scanner (scanner.rs), the Parser           *)
(* (parser.rs) and the two Compilers (compiler.rs).                        *)
(*                                                                         *)
(* Text is a sequence of one-character strings.  Cursors are 0-based as in *)
(* the Rust source; source[i + 1] is the character at Rust index i.        *)
(***************************************************************************)
EXTENDS Integers, Sequences, FiniteSets, TLC

\* ------------------------------------------------------------------------
\* Bounds of the model
\* ------------------------------------------------------------------------

\* Number of fragments concatenated into a generated source text.
MaxFrags == 3

\* ------------------------------------------------------------------------
\* State: the scanner at work on a text, the parser at work on a file, and
\* a build compiling a parsed document
\* ------------------------------------------------------------------------

VARIABLES
    entry,        \* the entry point called: "scan_body" or "scan_file"
    scanner,      \* the Scanner
    spc,          \* where the call stands: "head", "loop", "done", "panic"
    frontmatter,  \* the frontmatter text scan_file found
    scan_result,  \* the Result returned
    failed,       \* how many calls of scan() or scan_frontmatter() returned Err
    merged        \* how many errors nested scanners handed to this one

scan_vars == <<entry, scanner, spc, frontmatter, scan_result, failed, merged>>

VARIABLES
    file,          \* the text of the file being parsed
    parser,        \* the Parser
    ppc,           \* where parse_file stands: "head", "loop", "done", "panic"
    parsed_fm,     \* the frontmatter deserialized from the header
    parse_result   \* the Result returned

parse_vars == <<file, parser, ppc, parsed_fm, parse_result>>

VARIABLES
    md,            \* the ParsedMd being built
    existing,      \* the frontmatter of public/<target>.md before the build
    build_no,      \* 1 for the build, 2 for the same build made once more
    cpc,           \* "build", "zenn", "qiita", "elements", "built", "panic"
    compiler,      \* the QiitaCompiler
    hash_order,    \* the iteration order of this run's HashMaps
    next_element,  \* the index of the element compile_elements maps next
    qiita_md,      \* the text the Qiita compiler has produced so far
    world,         \* what image_path_github found, the last time it ran
    articles,      \* articles/<target>.md as each build wrote it
    public         \* public/<target>.md as each build wrote it

compile_vars ==
    <<md, existing, build_no, cpc, compiler, hash_order, next_element, qiita_md, world,
      articles, public>>

vars == <<scan_vars, parse_vars, compile_vars>>

\* ------------------------------------------------------------------------
\* Text helpers
\* ------------------------------------------------------------------------

\* Option::None of peek()
None == "None"

NL == "\n"

\* The backtick character U+0060, which a TLA+ string literal cannot hold.
BQ == "U+0060"

RECURSIVE Flatten(_)
Flatten(ss) == IF ss = <<>> THEN <<>> ELSE Head(ss) \o Flatten(Tail(ss))

\* slice.get(a..b): None (here the empty default of unwrap_or_default)
\* when the range is out of bounds
Slice(src, a, b) == IF a <= b /\ b <= Len(src) THEN SubSeq(src, a + 1, b) ELSE <<>>

\* char::is_whitespace on the characters the model uses
is_whitespace(c) == c \in {" ", NL, "\t"}

\* scanner.rs constants
SEPARATOR == <<"-", "-", "-", NL>>
MESSAGE_TAG == <<"m", "e", "s", "s", "a", "g", "e">>
DETAILS_TAG == <<"d", "e", "t", "a", "i", "l", "s">>

IMG_OPEN == <<"!", "[">>
CARD_OPEN == <<"@", "[">>
INLINE_FN_OPEN == <<"^", "[">>
FN_OPEN == <<"[", "^">>
RBRACKET == <<"]">>
RBRACKET_LPAREN == <<"]", "(">>
RPAREN == <<")">>
BACKTICK == <<BQ>>
FENCE == <<BQ, BQ, BQ>>
COLON == <<":">>
COLONS3 == <<":", ":", ":">>
NEWLINE == <<NL>>
MACRO_OPEN == <<"<", "m", "a", "c", "r", "o", ">">>
MACRO_CLOSE == <<"<", "/", "m", "a", "c", "r", "o", ">">>
HTTPS == <<"h", "t", "t", "p", "s", ":", "/", "/">>
HTTP == <<"h", "t", "t", "p", ":", "/", "/">>

\* ------------------------------------------------------------------------
\* Scanner (scanner.rs)
\* ------------------------------------------------------------------------

\* Scanner::with_row_col
with_row_col(source, row, col) ==
    [source |-> source, current |-> 0, start |-> 0, row |-> row, col |-> col,
     tokens |-> <<>>, errors |-> <<>>]

\* Scanner::new
Scanner_new(source) == with_row_col(source, 1, 1)

\* ScanError::new
ScanError(error_type, arg, row, col) ==
    [error_type |-> error_type, arg |-> arg, row |-> row, col |-> col]

peek(s) == IF s.current < Len(s.source) THEN s.source[s.current + 1] ELSE None

is_at_end(s) == s.current >= Len(s.source)

advance(s) ==
    LET c == peek(s)
    IN  [s EXCEPT !.current = @ + 1,
                  !.row = IF c = NL THEN @ + 1 ELSE @,
                  !.col = IF c = NL THEN 1 ELSE @ + 1]

RECURSIVE advance_n(_, _)
advance_n(s, n) == IF n = 0 THEN s ELSE advance_n(advance(s), n - 1)

matches_keyword(s, keyword) ==
    /\ s.current + Len(keyword) <= Len(s.source)
    /\ SubSeq(s.source, s.current + 1, s.current + Len(keyword)) = keyword

delete_buffer(s) == [s EXCEPT !.start = s.current]

\* the String consume_buffer returns; the state it leaves is delete_buffer(s)
buffer(s) == Slice(s.source, s.start, s.current)

\* expect_string: the state it leaves; its bool is matches_keyword(s, string)
expect_string(s, string) ==
    IF matches_keyword(s, string) THEN advance_n(s, Len(string)) ELSE s

make_token(s, token_type) == token_type @@ [row |-> s.row, col |-> s.col]

push_token(s, token_type) ==
    [s EXCEPT !.tokens = Append(@, make_token(s, token_type))]

collect_text(s) ==
    push_token(delete_buffer(s), [type |-> "Text", text |-> buffer(s)])

RECURSIVE extract_while(_, _)
extract_while(s, char) ==
    IF peek(s) = char /\ ~is_at_end(s) THEN extract_while(advance(s), char) ELSE s

consume_spaces(s) == extract_while(s, " ")

RECURSIVE extract_until_unchecked(_, _)
extract_until_unchecked(s, until) ==
    IF (peek(s) = Head(until) /\ matches_keyword(s, until)) \/ is_at_end(s)
    THEN s
    ELSE extract_until_unchecked(advance(s), until)

\* A Result<()> of the scanner: the state left behind and zero or one error.
Ok(s) == [s |-> s, err |-> <<>>]
Err(s, e) == [s |-> s, err |-> <<e>>]

\* The ? operator: an Err returns at once, an Ok goes on with the state.
Try(r, K(_)) == IF r.err # <<>> THEN r ELSE K(r.s)

\* let v = ...; the rest
Bind(v, K(_)) == K(v)

\* extract_until_check without the restore of the cursor
extract_until_check_no_restore(s, t, end) ==
    IF is_at_end(t)
    THEN Bind(advance(t), LAMBDA r : Err(r, ScanError("Incomplete", end, r.row, r.col)))
    ELSE Ok(t)

\* the tail of extract_until once the cursor stopped: restore, step, report
extract_until_check(s, t, end) ==
    IF is_at_end(t)
    THEN Bind(advance([t EXCEPT !.current = s.current, !.row = s.row, !.col = s.col]),
              LAMBDA r : Err(r, ScanError("Incomplete", end, r.row, r.col)))
    ELSE Ok(t)

extract_until(s, end) == extract_until_check(s, extract_until_unchecked(s, end), end)

\* ---- serde_yaml::from_str::<StringMacro> (scanner.rs:249) ----
\* The mapping syntax the model reads: one `key: value` entry per line, the
\* keys being zenn and qiita, a value being a plain scalar or a double-quoted
\* one without escapes.  Everything else fails to deserialize.  An Option is
\* a sequence of zero or one value.

ZENN_KEY == <<"z", "e", "n", "n", ":">>
QIITA_KEY == <<"q", "i", "i", "t", "a", ":">>

\* characters a YAML plain scalar cannot start with
YamlIndicators ==
    {"!", "[", "]", "{", "}", "&", "*", "#", "|", ">", "@", BQ, "%", ",", "'", "-", "?", ":"}

IsPrefix(p, str) == Len(p) <= Len(str) /\ SubSeq(str, 1, Len(p)) = p

\* the index of the first newline of str, 0 if it has none
FirstNewline(str) ==
    IF \A i \in 1..Len(str) : str[i] # NL THEN 0
    ELSE CHOOSE i \in 1..Len(str) : str[i] = NL /\ \A j \in 1..(i - 1) : str[j] # NL

\* str::split('\n'), or the lines of a YAML text
RECURSIVE SplitLines(_)
SplitLines(str) ==
    Bind(FirstNewline(str), LAMBDA k :
        IF k = 0 THEN <<str>>
        ELSE <<SubSeq(str, 1, k - 1)>> \o SplitLines(SubSeq(str, k + 1, Len(str))))

RECURSIVE DropSpaces(_)
DropSpaces(str) ==
    IF str # <<>> /\ Head(str) = " " THEN DropSpaces(Tail(str)) ELSE str

\* a scalar without its leading spaces: [ok, value]
YamlScalarOf(v) ==
    IF v = <<>> THEN [ok |-> TRUE, value |-> <<>>]
    ELSE IF Head(v) = "\""
    THEN IF Len(v) >= 2 /\ v[Len(v)] = "\""
            /\ \A i \in 2..(Len(v) - 1) : v[i] \notin {"\"", "\\"}
         THEN [ok |-> TRUE, value |-> <<SubSeq(v, 2, Len(v) - 1)>>]
         ELSE [ok |-> FALSE, value |-> <<>>]
    ELSE IF \/ Head(v) \in YamlIndicators
            \/ v[Len(v)] \in {":", " "}
            \/ \E i \in 1..(Len(v) - 1) : v[i] = ":" /\ v[i + 1] = " "
    THEN [ok |-> FALSE, value |-> <<>>]
    ELSE [ok |-> TRUE, value |-> <<v>>]

YamlScalar(raw) == YamlScalarOf(DropSpaces(raw))

\* the entry `key: value` of one line, the key being known: [ok, key, value]
YamlEntryOf(key, rest) ==
    IF key = "other" \/ (rest # <<>> /\ Head(rest) # " ")
    THEN [ok |-> FALSE, key |-> key, value |-> <<>>]
    ELSE Bind(YamlScalar(rest),
              LAMBDA sc : [ok |-> sc.ok, key |-> key, value |-> sc.value])

YamlEntry(line) ==
    IF IsPrefix(ZENN_KEY, line)
    THEN YamlEntryOf("zenn", SubSeq(line, Len(ZENN_KEY) + 1, Len(line)))
    ELSE IF IsPrefix(QIITA_KEY, line)
    THEN YamlEntryOf("qiita", SubSeq(line, Len(QIITA_KEY) + 1, Len(line)))
    ELSE YamlEntryOf("other", <<>>)

\* the value of key k among the entries, None when absent
YamlField(entries, k) ==
    IF \E i \in 1..Len(entries) : entries[i].key = k
    THEN entries[CHOOSE i \in 1..Len(entries) : entries[i].key = k].value
    ELSE <<>>

YamlMapping(entries) ==
    IF /\ entries # <<>>
       /\ \A i \in 1..Len(entries) : entries[i].ok
       /\ \A i, j \in 1..Len(entries) : entries[i].key = entries[j].key => i = j
    THEN [ok |-> TRUE, zenn |-> YamlField(entries, "zenn"),
          qiita |-> YamlField(entries, "qiita")]
    ELSE [ok |-> FALSE, zenn |-> <<>>, qiita |-> <<>>]

YamlEntries(lines) == [i \in 1..Len(lines) |-> YamlEntry(lines[i])]

\* [ok, zenn, qiita]
StringMacro_from_str(body) ==
    YamlMapping(YamlEntries(SelectSeq(SplitLines(body), LAMBDA l : l # <<>>)))

\* Option<String>::unwrap_or_default
unwrap_or_default(opt) == IF opt = <<>> THEN <<>> ELSE opt[1]

\* ---- Scanner::scan, one arm per operator ----

SpanToken(kind, first, url) ==
    IF kind = "Image"
    THEN [type |-> kind, alt |-> first, url |-> url]
    ELSE [type |-> kind, card_type |-> first, url |-> url]

\* the '!' arm (kind "Image", open "![") and the '@' arm ("LinkCard", "@[")
scan_span(s0, open, kind) ==
    IF ~matches_keyword(s0, open) THEN Ok(advance(s0))
    ELSE
    Try(extract_until(delete_buffer(expect_string(collect_text(s0), open)), RBRACKET),
        LAMBDA s1 :
    Try(extract_until(delete_buffer(expect_string(delete_buffer(s1), RBRACKET_LPAREN)),
                      RPAREN),
        LAMBDA s2 :
    Ok(push_token(delete_buffer(expect_string(delete_buffer(s2), RPAREN)),
                  SpanToken(kind, buffer(s1), buffer(s2))))))

\* the '^' arm
scan_inline_footnote(s0) ==
    IF ~matches_keyword(s0, INLINE_FN_OPEN) THEN Ok(advance(s0))
    ELSE
    Try(extract_until(delete_buffer(expect_string(collect_text(s0), INLINE_FN_OPEN)),
                      RBRACKET),
        LAMBDA s1 :
    Ok(push_token(delete_buffer(expect_string(delete_buffer(s1), RBRACKET)),
                  [type |-> "InlineFootnote", text |-> buffer(s1)])))

\* a '[' arm that does not look for the colon of a definition
scan_footnote_always(s0) ==
    IF ~matches_keyword(s0, FN_OPEN) THEN Ok(advance(s0))
    ELSE
    Try(extract_until(delete_buffer(expect_string(collect_text(s0), FN_OPEN)), RBRACKET),
        LAMBDA s1 :
    Ok(push_token(delete_buffer(expect_string(delete_buffer(s1), RBRACKET)),
                  [type |-> "Footnote", text |-> buffer(s1)])))

\* the '[' arm
scan_footnote(s0) ==
    IF ~matches_keyword(s0, FN_OPEN) THEN Ok(advance(s0))
    ELSE
    Try(extract_until(delete_buffer(expect_string(collect_text(s0), FN_OPEN)), RBRACKET),
        LAMBDA s1 :
    Bind(delete_buffer(expect_string(delete_buffer(s1), RBRACKET)),
        LAMBDA s2 :
    IF matches_keyword(s2, COLON)
    THEN Ok([s2 EXCEPT !.start = s0.current])
    ELSE Ok(push_token(s2, [type |-> "Footnote", text |-> buffer(s1)]))))

\* a backtick arm that reads the opening delimiter and nothing more
scan_code_of_opening(s0, delim) == Ok(expect_string(s0, delim))

\* the backtick arm, the delimiter being known
scan_code_of(s0, delim) ==
    Try(extract_until(expect_string(s0, delim), delim),
        LAMBDA s1 : Ok(expect_string(s1, delim)))

scan_code(s0) ==
    IF matches_keyword(s0, FENCE) THEN scan_code_of(s0, FENCE)
    ELSE scan_code_of(s0, BACKTICK)

\* while let Some(c) = self.peek() { ... self.advance() }
RECURSIVE url_run(_)
url_run(s) ==
    IF peek(s) = None \/ is_whitespace(peek(s)) \/ is_at_end(s)
    THEN s ELSE url_run(advance(s))

\* the 'h' arm of block_element
block_url(s0) ==
    IF ~(matches_keyword(s0, HTTPS) \/ matches_keyword(s0, HTTP)) THEN Ok(advance(s0))
    ELSE Bind(url_run(collect_text(s0)),
              LAMBDA s1 : Ok(push_token(delete_buffer(s1),
                                        [type |-> "Url", text |-> buffer(s1)])))

\* while self.expect_string(":") { level += 1 }: [s, level]
RECURSIVE count_colons(_, _)
count_colons(s, level) ==
    IF matches_keyword(s, COLON)
    THEN count_colons(expect_string(s, COLON), level + 1)
    ELSE [s |-> s, level |-> level]

\* the MessageBegin and DetailsBegin branches of the ':' arm
block_begin(s, level, tag, kind) ==
    Try(extract_until(delete_buffer(consume_spaces(expect_string(s, tag))), NEWLINE),
        LAMBDA s1 :
    Ok(push_token(delete_buffer(s1),
                  [type |-> kind, level |-> level, text |-> buffer(s1)])))

\* the ':' arm of block_element after the colons
block_fence_of(s, level) ==
    IF matches_keyword(s, MESSAGE_TAG) THEN block_begin(s, level, MESSAGE_TAG, "MessageBegin")
    ELSE IF matches_keyword(s, DETAILS_TAG)
    THEN block_begin(s, level, DETAILS_TAG, "DetailsBegin")
    ELSE Ok(push_token(delete_buffer(s), [type |-> "MessageOrDetailsEnd", level |-> level]))

\* the ':' arm of block_element
block_fence(s0) ==
    IF ~matches_keyword(s0, COLONS3) THEN Ok(s0)
    ELSE Bind(count_colons(expect_string(collect_text(s0), COLONS3), 0),
              LAMBDA c : block_fence_of(c.s, c.level))

block_element_of(c_next, s1) ==
    IF c_next = "h" THEN block_url(s1)
    ELSE IF c_next = ":" THEN block_fence(s1)
    ELSE Ok(s1)

block_element(s0) ==
    IF peek(s0) = None THEN Ok(s0) ELSE block_element_of(peek(s0), consume_spaces(s0))

RECURSIVE scan(_)
RECURSIVE scan_loop(_)

\* the end of scan_body, the loop being over
scan_body_end(s) ==
    IF s.errors # <<>>
    THEN [ok |-> FALSE, tokens |-> <<>>, errors |-> s.errors]
    ELSE [ok |-> TRUE, tokens |-> s.tokens, errors |-> <<>>]

\* Scanner::scan_body: Ok(tokens) or Err(errors)
scan_body(s0) == scan_body_end(collect_text(scan_loop(s0)))

\* the '<' arm once the mapping deserialized: the two nested scans
scan_macro_platforms(s2, yaml, row, col) ==
    Bind(scan_body(with_row_col(unwrap_or_default(yaml.zenn), row, col)),
        LAMBDA zenn :
    IF ~zenn.ok
    THEN Err([s2 EXCEPT !.errors = @ \o zenn.errors],
             ScanError("InvalidMacro", <<>>, row, col))
    ELSE
    Bind(scan_body(with_row_col(unwrap_or_default(yaml.qiita), row, col)),
        LAMBDA qiita :
    IF ~qiita.ok
    THEN Err([s2 EXCEPT !.errors = @ \o qiita.errors],
             ScanError("InvalidMacro", <<>>, row, col))
    ELSE Ok(push_token(s2, [type |-> "Macro",
                            zenn |-> zenn.tokens, qiita |-> qiita.tokens]))))

\* the '<' arm from the body of the macro on.  The position serde_yaml
\* reports for a mapping it rejects is not modelled: (0, 0) is the branch
\* of an error without location.
scan_macro_body(s2, yaml, row, col) ==
    IF ~yaml.ok THEN Err(s2, ScanError("InvalidMacro", <<>>, 0, 0))
    ELSE scan_macro_platforms(s2, yaml, row, col)

\* the '<' arm
scan_macro(s0) ==
    IF ~matches_keyword(s0, MACRO_OPEN) THEN Ok(advance(s0))
    ELSE
    Bind(expect_string(collect_text(s0), MACRO_OPEN),
        LAMBDA s1 :
    Try(extract_until(delete_buffer(s1), MACRO_CLOSE),
        LAMBDA t :
    scan_macro_body(delete_buffer(expect_string(delete_buffer(t), MACRO_CLOSE)),
                    StringMacro_from_str(buffer(t)), s1.row, s1.col)))

\* a match whose last arm consumes nothing
scan_arm_idle(s, c) ==
    IF c = None THEN Ok(s)
    ELSE IF c = "!" THEN scan_span(s, IMG_OPEN, "Image")
    ELSE IF c = "@" THEN scan_span(s, CARD_OPEN, "LinkCard")
    ELSE IF c = "^" THEN scan_inline_footnote(s)
    ELSE IF c = "[" THEN scan_footnote(s)
    ELSE IF c = BQ THEN scan_code(s)
    ELSE IF c = "<" THEN scan_macro(s)
    ELSE IF c = NL THEN block_element(advance(s))
    ELSE Ok(s)

scan_arm(s, c) ==
    IF c = None THEN Ok(s)
    ELSE IF c = "!" THEN scan_span(s, IMG_OPEN, "Image")
    ELSE IF c = "@" THEN scan_span(s, CARD_OPEN, "LinkCard")
    ELSE IF c = "^" THEN scan_inline_footnote(s)
    ELSE IF c = "[" THEN scan_footnote(s)
    ELSE IF c = BQ THEN scan_code(s)
    ELSE IF c = "<" THEN scan_macro(s)
    ELSE IF c = NL THEN block_element(advance(s))
    ELSE Ok(advance(s))

scan(s) == scan_arm(s, peek(s))

\* if let Err(error) = self.scan() { self.errors.push(error) }
push_error(r) ==
    IF r.err # <<>> THEN [r.s EXCEPT !.errors = Append(@, r.err[1])] ELSE r.s

\* one turn of the while loop of scan_body
scan_turn(s) == push_error(scan(s))

scan_loop(s) == IF is_at_end(s) THEN s ELSE scan_loop(scan_turn(s))

\* the end of scan_frontmatter: [s, err, header]
scan_frontmatter_end(e1) ==
    IF e1.err # <<>> THEN [s |-> e1.s, err |-> e1.err, header |-> <<>>]
    ELSE [s |-> delete_buffer(expect_string(delete_buffer(e1.s), SEPARATOR)),
          err |-> <<>>, header |-> buffer(e1.s)]

\* Scanner::scan_frontmatter: [s, err, header]
scan_frontmatter(s0) ==
    scan_frontmatter_end(
        extract_until(delete_buffer(expect_string(consume_spaces(s0), SEPARATOR)),
                      SEPARATOR))

\* Vec::insert(index, element)
insert(vec, index, element) ==
    SubSeq(vec, 1, index) \o <<element>> \o SubSeq(vec, index + 1, Len(vec))

\* self.source.insert(self.current, '\n'); Vec::insert panics when the
\* index is greater than the length: [s, frontmatter, panic]
scan_file_insert(s1, header) ==
    IF s1.current > Len(s1.source)
    THEN [s |-> s1, frontmatter |-> header, panic |-> TRUE]
    ELSE [s |-> [s1 EXCEPT !.source = insert(@, s1.current, NL)],
          frontmatter |-> header, panic |-> FALSE]

\* the head of scan_file, up to the call of scan_body
scan_file_head(s0) ==
    Bind(scan_frontmatter(s0), LAMBDA f : scan_file_insert(push_error(f), f.header))

\* the tail of scan_file: the first token loses its first character if it
\* is a Text
scan_file_tail(body) ==
    IF body # <<>> /\ body[1].type = "Text"
    THEN [body EXCEPT ![1].text = Slice(@, 1, Len(@))]
    ELSE body

\* ------------------------------------------------------------------------
\* Source texts
\* ------------------------------------------------------------------------

RECURSIVE SeqsUpTo(_, _)
SeqsUpTo(S, n) ==
    IF n = 0 THEN {<<>>}
    ELSE LET shorter == SeqsUpTo(S, n - 1)
         IN  shorter \cup {Append(q, x) : q \in shorter, x \in S}

\* the fragments free-form sources are made of
ScanFrags ==
    {IMG_OPEN, INLINE_FN_OPEN, FN_OPEN, RBRACKET, RBRACKET_LPAREN, RPAREN,
     BACKTICK, NEWLINE, COLONS3, COLON, <<"a">>, <<" ">>, MESSAGE_TAG,
     <<"<">>, CARD_OPEN}

FragSources == {Flatten(q) : q \in SeqsUpTo(ScanFrags, MaxFrags)}

\* what a platform entry of a macro may hold
MacroContents ==
    {<<>>, <<"A">>, <<"B">>, <<"^", "[", "b", "]">>, <<"^", "[", "b">>,
     <<"[", "^", "n">>, <<"\"", "!", "[", "a", "]", "(", "u", "\"">>}

MacroSources ==
    {MACRO_OPEN \o ZENN_KEY \o <<" ">> \o z \o NEWLINE \o QIITA_KEY \o <<" ">> \o q
        \o close \o after :
        z \in MacroContents, q \in MacroContents,
        close \in {MACRO_CLOSE, <<>>}, after \in {<<>>, <<"^", "[", "c">>}}
    \cup {MACRO_OPEN \o <<"A">> \o MACRO_CLOSE}

\* image spans, terminated or not
ImageSources ==
    {before \o IMG_OPEN \o alt \o RBRACKET_LPAREN \o url \o close :
        before \in {<<>>, <<"a">>, <<"a", NL>>},
        alt \in {<<>>, <<"a", "l", "t">>},
        url \in {<<>>, <<"u">>, <<"/", "u", NL, "v">>, HTTP \o <<"x">>},
        close \in {<<>>, RPAREN}}

RECURSIVE Repeat(_, _)
Repeat(str, n) == IF n = 0 THEN <<>> ELSE str \o Repeat(str, n - 1)

\* block fences of every level up to 2
BlockSources ==
    {before \o NEWLINE \o COLONS3 \o Repeat(COLON, k) \o tag \o rest :
        before \in {<<>>, <<"a">>},
        k \in 0..2,
        tag \in {MESSAGE_TAG \o <<" ">>, DETAILS_TAG \o <<" ">>, <<>>},
        rest \in {<<>>, NEWLINE, <<"i", "n", "f", "o", NL, "x", NL>> \o COLONS3}}
    \cup {NEWLINE \o HTTPS \o <<"x">> \o rest : rest \in {<<>>, <<" ", "y">>, NEWLINE}}

\* a footnote span between a plain text and what follows it
PlainTexts == {<<>>, <<"x">>, <<"x", " ">>, <<"a", NL, "b">>}
FootnoteIds == {<<>>, <<"1">>, <<"i", "d">>, <<"a", " ", "b">>}
FootnoteTails ==
    {<<>>, COLON, <<":", " ", "d">>, <<":", ":">>, <<" ", "y">>, <<" ", ":">>, NEWLINE, NEWLINE \o COLON,
     RBRACKET \o COLON, BACKTICK \o COLON \o BACKTICK}
FootnoteSources ==
    {before \o FN_OPEN \o id \o RBRACKET \o after :
        before \in PlainTexts, id \in FootnoteIds, after \in FootnoteTails}

\* a terminated code span, inline or fenced, between two texts; what the
\* span holds would be an element anywhere else
CodeDelims == {BACKTICK, FENCE}
CodeInners ==
    {<<>>, <<"c">>, <<"!", "[", "a", "]", "(", "u", ")">>, <<"@", "[", "c", "a", "r", "d", "]", "(", "u", ")">>, <<"^", "[", "n", "]">>, <<"[", "^", "n", "]">>, <<"[", "^", "n", "]", ":", " ", "d">>,
     <<NL, ":", ":", ":", "m", "e", "s", "s", "a", "g", "e", " ", "i", "n", "f", "o", NL, "x", NL, ":", ":", ":", NL>>, <<NL, ":", ":", ":", ":", "d", "e", "t", "a", "i", "l", "s", " ", "t", NL>>, <<NL, "h", "t", "t", "p", "s", ":", "/", "/", "x", NL>>,
     <<"<", "m", "a", "c", "r", "o", ">", "z", "e", "n", "n", ":", " ", "A", NL, "q", "i", "i", "t", "a", ":", " ", "B", "<", "/", "m", "a", "c", "r", "o", ">">>, <<"!", "[", "a", "]", "(">>, <<"^", "[", "n">>}
CodeInnersOf(delim) ==
    CodeInners \cup (IF delim = FENCE THEN {<<"a">> \o BACKTICK \o <<"b">>} ELSE {})
CodeTails == {<<>>, <<" ", "y">>, <<"[", "^", "n", "]">>, <<NL, ":", ":", ":">>}
CodeSources ==
    {before \o delim \o inner \o delim \o after :
        before \in PlainTexts, delim \in CodeDelims, inner \in CodeInners, after \in CodeTails}
    \cup {FENCE \o inner \o FENCE : inner \in CodeInnersOf(FENCE)}

\* one fence line after a newline: colons, a tag or none, the rest of the
\* line, with the newline that ends the line or without it
FenceTags == {MESSAGE_TAG, DETAILS_TAG, <<>>}
FenceRests == {<<>>, <<" ", "i", "n", "f", "o">>, <<" ", "m", "y", " ", "t", "i", "t", "l", "e">>, <<" ", " ", "w", "a", "r", "n">>}
FenceEnds == {<<>>, NEWLINE, <<NL, "x">>}
FenceSources ==
    {before \o NEWLINE \o COLONS3 \o Repeat(COLON, k) \o tag \o rest \o end :
        before \in {<<>>, <<"a">>}, k \in 0..2, tag \in FenceTags,
        rest \in FenceRests, end \in FenceEnds}

BodySources ==
    FragSources \cup MacroSources \cup ImageSources \cup BlockSources
        \cup FootnoteSources \cup CodeSources \cup FenceSources

\* whole files: a frontmatter block, or none, and a body
FileHeads == {<<>>, SEPARATOR \o <<"t">> \o NEWLINE \o SEPARATOR, SEPARATOR \o <<"t">>}
FileBodies ==
    {<<>>, <<"a">>, COLONS3, <<"a", NL>> \o INLINE_FN_OPEN \o <<"b">>,
     COLONS3 \o MESSAGE_TAG \o <<" ", "i", "n", "f", "o", NL, "x", NL>> \o COLONS3,
     IMG_OPEN \o RBRACKET_LPAREN \o RPAREN, <<NL, NL>> \o IMG_OPEN}
FileSources == {h \o b : h \in FileHeads, b \in FileBodies}

\* ------------------------------------------------------------------------
\* The scanner as a state machine
\* ------------------------------------------------------------------------

NoResult == [ok |-> FALSE, tokens |-> <<>>, errors |-> <<>>]

ScanInit ==
    /\ entry \in {"scan_body", "scan_file"}
    /\ scanner \in {Scanner_new(src) :
                      src \in IF entry = "scan_body" THEN BodySources ELSE FileSources}
    /\ spc = IF entry = "scan_file" THEN "head" ELSE "loop"
    /\ frontmatter = <<>>
    /\ scan_result = NoResult
    /\ failed = 0
    /\ merged = 0

\* scan_file up to its call of scan_body
ScanFileHead ==
    /\ spc = "head"
    /\ LET h == scan_file_head(scanner)
       IN  /\ scanner' = h.s
           /\ frontmatter' = h.frontmatter
           /\ failed' = failed + Len(h.s.errors)
           /\ spc' = IF h.panic THEN "panic" ELSE "loop"
    /\ UNCHANGED <<entry, scan_result, merged>>
    /\ UNCHANGED <<parse_vars, compile_vars>>

\* one turn of the while loop of scan_body
ScanTurn ==
    /\ spc = "loop"
    /\ ~is_at_end(scanner)
    /\ LET r == scan(scanner)
       IN  /\ scanner' = scan_turn(scanner)
           /\ failed' = failed + Len(r.err)
           /\ merged' = merged + (Len(r.s.errors) - Len(scanner.errors))
    /\ UNCHANGED <<entry, spc, frontmatter, scan_result>>
    /\ UNCHANGED <<parse_vars, compile_vars>>

\* the end of scan_body, and of scan_file when that is the entry point
ScanReturn ==
    /\ spc = "loop"
    /\ is_at_end(scanner)
    /\ LET r == scan_body(scanner)
       IN  scan_result' = IF entry = "scan_file" /\ r.ok
                          THEN [r EXCEPT !.tokens = scan_file_tail(@)]
                          ELSE r
    /\ scanner' = collect_text(scanner)
    /\ spc' = "done"
    /\ UNCHANGED <<entry, frontmatter, failed, merged>>
    /\ UNCHANGED <<parse_vars, compile_vars>>

ScanNext == ScanFileHead \/ ScanTurn \/ ScanReturn

\* ------------------------------------------------------------------------
\* Properties of the scanner
\* ------------------------------------------------------------------------

\* the 1-based row and column of the character at 0-based index i of src
PositionOf(src, i) ==
    LET newlines == {j \in 1..i : src[j] = NL}
        last == IF newlines = {} THEN 0 ELSE CHOOSE j \in newlines : \A k \in newlines : k <= j
    IN  [row |-> 1 + Cardinality(newlines), col |-> i - last + 1]

\* the openers of the four bracketed spans
Openers == {IMG_OPEN, CARD_OPEN, INLINE_FN_OPEN, FN_OPEN}

\* a text in which no span can be closed and nothing but spans can open
OnlyOpeners(src) == \A i \in 1..Len(src) : src[i] \in {"!", "@", "^", "[", "a", " "}

OpenerAt(src, i) == \E o \in Openers : i + 2 <= Len(src) /\ SubSeq(src, i + 1, i + 2) = o

\* In such a text every span is unterminated.  The spans a pass meets, read
\* from index i on: a span that fails gives up its opener and one character
\* more, and the text after that is read as if nothing had failed.
RECURSIVE UnterminatedSpans(_, _)
UnterminatedSpans(src, i) ==
    IF i >= Len(src) THEN 0
    ELSE IF OpenerAt(src, i) THEN 1 + UnterminatedSpans(src, i + 3)
    ELSE UnterminatedSpans(src, i + 1)

UnterminatedImages ==
    {[src |-> IMG_OPEN \o alt \o RBRACKET_LPAREN \o url, paren |-> Len(alt) + 3] :
        alt \in {<<>>, <<"a", "l", "t">>},
        url \in {<<>>, <<"u">>, HTTP \o <<"x">>}}

\* C2 (the claim as stated): scanning an image span that is never closed
\* fails with exactly one error, Incomplete(")"), positioned at the opening
\* parenthesis of the span.
C2_ErrorAtOpeningParen ==
    \A u \in UnterminatedImages :
        (spc = "done" /\ entry = "scan_body" /\ scanner.source = u.src) =>
            /\ ~scan_result.ok
            /\ scan_result.errors =
                  <<ScanError("Incomplete", RPAREN,
                              PositionOf(u.src, u.paren).row,
                              PositionOf(u.src, u.paren).col)>>

\* ------------------------------------------------------------------------
\* Parser (parser.rs)
\* ------------------------------------------------------------------------

\* Parser::new
Parser_new(source) ==
    [source |-> source, position |-> 0, start |-> 0, row |-> 1, col |-> 1,
     result |-> <<>>, errors |-> <<>>]

\* ParseError::new
ParseError(error_type, arg, row, col) ==
    [error_type |-> error_type, arg |-> arg, row |-> row, col |-> col]

\* A Result<()> of the parser: the state left behind, zero or one error, and
\* whether the call panicked (an unwrap() of None).
POk(s) == [s |-> s, err |-> <<>>, panic |-> FALSE]
PErr(s, e) == [s |-> s, err |-> <<e>>, panic |-> FALSE]
PPanic(s) == [s |-> s, err |-> <<>>, panic |-> TRUE]

\* The ? operator of the parser; a panic unwinds through it as well.
PTry(r, K(_)) == IF r.panic \/ r.err # <<>> THEN r ELSE K(r.s)

Parser_peek(s) == IF s.position < Len(s.source) THEN s.source[s.position + 1] ELSE None

Parser_peek_next(s) ==
    IF s.position + 1 < Len(s.source) THEN s.source[s.position + 2] ELSE None

Parser_is_at_end(s) == s.position >= Len(s.source)

Parser_advance(s) ==
    [s EXCEPT !.position = @ + 1,
              !.row = IF Parser_peek(s) = NL THEN @ + 1 ELSE @,
              !.col = IF Parser_peek(s) = NL THEN 1 ELSE @ + 1]

RECURSIVE Parser_advance_n(_, _)
Parser_advance_n(s, n) == IF n = 0 THEN s ELSE Parser_advance_n(Parser_advance(s), n - 1)

Parser_matches_keyword(s, keyword) ==
    /\ s.position + Len(keyword) <= Len(s.source)
    /\ SubSeq(s.source, s.position + 1, s.position + Len(keyword)) = keyword

Parser_delete_buffer(s) == [s EXCEPT !.start = s.position]

Parser_expect_string(s, string) ==
    IF Parser_matches_keyword(s, string) THEN Parser_advance_n(s, Len(string)) ELSE s

\* Parser::consume_buffer, handing the Option<String> and the state it
\* leaves to K.  The buffer is None when it is empty; the unwrap() of the
\* slice panics when the cursor stands beyond the end of the source.
Parser_consume_buffer(s, K(_, _)) ==
    IF s.start = s.position THEN K(s, <<>>)
    ELSE IF s.start > s.position \/ s.position > Len(s.source) THEN PPanic(s)
    ELSE K(Parser_delete_buffer(s), <<SubSeq(s.source, s.start + 1, s.position)>>)

\* consume_buffer().unwrap()
Parser_consume_unwrap(s, K(_, _)) ==
    Parser_consume_buffer(s, LAMBDA t, opt : IF opt = <<>> THEN PPanic(t) ELSE K(t, opt[1]))

\* consume_buffer().unwrap_or_default()
Parser_consume_or_default(s, K(_, _)) ==
    Parser_consume_buffer(s, LAMBDA t, opt : K(t, unwrap_or_default(opt)))

Parser_push(s, element) == [s EXCEPT !.result = Append(@, element)]

\* Parser::collect_text as a Result: it panics where consume_buffer does
Parser_collect_text(s) ==
    Parser_consume_buffer(s, LAMBDA t, opt :
        IF opt = <<>> THEN POk(t) ELSE POk(Parser_push(t, [kind |-> "Text", text |-> opt[1]])))

\* Parser::extract_until_unchecked(until: char)
RECURSIVE Parser_extract_until_unchecked(_, _)
Parser_extract_until_unchecked(s, until) ==
    IF Parser_peek(s) # until /\ ~Parser_is_at_end(s)
    THEN Parser_extract_until_unchecked(Parser_advance(s), until)
    ELSE s

\* the tail of Parser::extract_until once the cursor stopped
Parser_extract_until_check(s, t, end) ==
    IF Parser_is_at_end(t)
    THEN Bind(Parser_advance([t EXCEPT !.position = s.position,
                                       !.row = s.row, !.col = s.col]),
              LAMBDA r : PErr(r, ParseError("Incomplete", end, r.row, r.col)))
    ELSE POk(t)

\* Parser::extract_until(end: &str): the search is for the first character
\* of end alone
Parser_extract_until(s, end) ==
    Parser_extract_until_check(s, Parser_extract_until_unchecked(s, Head(end)), end)

RECURSIVE Parser_skip(_, _)
\* while matches!(self.peek(), Some(c)) { self.advance() }
Parser_skip(s, c) == IF Parser_peek(s) = c THEN Parser_skip(Parser_advance(s), c) ELSE s

Parser_advance_spaces(s) == Parser_skip(s, " ")

LPAREN == <<"(">>
INFO == <<"i", "n", "f", "o">>
WARN == <<"w", "a", "r", "n">>
ALERT == <<"a", "l", "e", "r", "t">>
DETAILS_OPEN == COLONS3 \o DETAILS_TAG
MESSAGE_OPEN == COLONS3 \o MESSAGE_TAG

\* the tail of square_brackets_or_link: the parenthesised part
Parser_link_target(s) ==
    IF Parser_matches_keyword(s, LPAREN)
    THEN PTry(Parser_extract_until(s, RPAREN), LAMBDA t : POk(Parser_expect_string(t, RPAREN)))
    ELSE POk(s)

square_brackets_or_link(s) ==
    PTry(Parser_extract_until(s, RBRACKET),
         LAMBDA t : Parser_link_target(Parser_expect_string(t, RBRACKET)))

\* serde_yaml::from_str::<Macro> (parser.rs:244).  The Macro type parser.rs
\* imports from ast is not in the source tree; it is read as the mapping of
\* macro.rs with optional fields.
macro_call_end(s, macro_yaml) ==
    Bind(StringMacro_from_str(macro_yaml), LAMBDA yaml :
        IF ~yaml.ok THEN PErr(s, ParseError("InvalidMacro", <<>>, s.row, s.col))
        ELSE POk(Parser_push(s, [kind |-> "Macro",
                                 zenn |-> unwrap_or_default(yaml.zenn),
                                 qiita |-> unwrap_or_default(yaml.qiita)])))

macro_call(s0) ==
    PTry(Parser_collect_text(s0), LAMBDA s1 :
    PTry(Parser_extract_until(Parser_delete_buffer(Parser_expect_string(s1, MACRO_OPEN)),
                              MACRO_CLOSE),
         LAMBDA s2 :
    Parser_consume_or_default(s2, LAMBDA s3, macro_yaml :
    macro_call_end(Parser_delete_buffer(Parser_expect_string(s3, MACRO_CLOSE)), macro_yaml))))

inline_footnote(s0) ==
    PTry(Parser_collect_text(s0), LAMBDA s1 :
    PTry(Parser_extract_until(Parser_delete_buffer(Parser_expect_string(s1, INLINE_FN_OPEN)),
                              RBRACKET),
         LAMBDA s2 :
    Parser_consume_unwrap(s2, LAMBDA s3, text :
    POk(Parser_delete_buffer(Parser_expect_string(
            Parser_push(s3, [kind |-> "InlineFootnote", text |-> text]), RBRACKET))))))

RECURSIVE Parser_url_run(_)
Parser_url_run(s) ==
    IF Parser_peek(s) # None /\ ~is_whitespace(Parser_peek(s))
    THEN Parser_url_run(Parser_advance(s)) ELSE s

url(s0) ==
    PTry(Parser_collect_text(s0), LAMBDA s1 :
    Parser_consume_unwrap(Parser_url_run(s1), LAMBDA s2, text :
    POk(Parser_push(s2, [kind |-> "Url", text |-> text]))))

code_block(s) ==
    IF Parser_peek_next(s) # BQ
    THEN PTry(Parser_extract_until(Parser_expect_string(s, BACKTICK), BACKTICK),
              LAMBDA t : POk(Parser_expect_string(t, BACKTICK)))
    ELSE IF Parser_matches_keyword(s, FENCE)
    THEN PTry(Parser_extract_until(Parser_expect_string(s, FENCE), FENCE),
              LAMBDA t : POk(Parser_expect_string(t, FENCE)))
    ELSE POk(s)

image(s0) ==
    PTry(Parser_collect_text(s0), LAMBDA s1 :
    PTry(Parser_extract_until(Parser_delete_buffer(Parser_expect_string(s1, IMG_OPEN)),
                              RBRACKET),
         LAMBDA s2 :
    Parser_consume_or_default(s2, LAMBDA s3, alt :
    PTry(Parser_extract_until(
             Parser_delete_buffer(Parser_expect_string(s3, RBRACKET_LPAREN)), RPAREN),
         LAMBDA s4 :
    Parser_consume_unwrap(s4, LAMBDA s5, link :
    POk(Parser_push(Parser_delete_buffer(Parser_expect_string(s5, RPAREN)),
                    [kind |-> "Image", alt |-> alt, url |-> link])))))))

RECURSIVE parse_element(_)
RECURSIVE parse_loop(_)

\* the end of Parser::parse, the loop being over: Ok(result) or Err(errors)
parse_end(r) ==
    IF r.panic THEN [ok |-> FALSE, elements |-> <<>>, errors |-> <<>>, panic |-> TRUE]
    ELSE IF r.s.errors = <<>>
    THEN [ok |-> TRUE, elements |-> r.s.result, errors |-> <<>>, panic |-> FALSE]
    ELSE [ok |-> FALSE, elements |-> <<>>, errors |-> r.s.errors, panic |-> FALSE]

\* Parser::parse
parse(s0) == parse_end(PTry(parse_loop(s0), LAMBDA s : Parser_collect_text(s)))

\* the end of details() and message(): the body parsed by a new Parser
block_end(s, element, content) ==
    Bind(parse(Parser_new(content)), LAMBDA body :
        IF body.panic THEN PPanic(s)
        ELSE POk(Parser_delete_buffer(Parser_skip(
                 IF body.ok
                 THEN Parser_push(s, element @@ [body |-> body.elements])
                 ELSE [s EXCEPT !.errors = @ \o body.errors],
                 ":"))))

details(s0) ==
    PTry(Parser_collect_text(s0), LAMBDA s1 :
    Parser_consume_or_default(
        Parser_extract_until_unchecked(
            Parser_delete_buffer(Parser_advance_spaces(
                Parser_expect_string(Parser_skip(s1, ":"), DETAILS_TAG))),
            NL),
        LAMBDA s2, title :
    PTry(Parser_extract_until(Parser_delete_buffer(Parser_expect_string(s2, NEWLINE)),
                              COLONS3),
         LAMBDA s3 :
    Parser_consume_or_default(s3, LAMBDA s4, content :
    block_end(s4, [kind |-> "Details", title |-> title], content)))))

\* the match on the type word; a word outside the set prints
\* "Invalid message type" and reads as Info
message_type_at(s) ==
    IF Parser_matches_keyword(s, INFO) THEN "Info"
    ELSE IF Parser_matches_keyword(s, WARN) THEN "Warn"
    ELSE IF Parser_matches_keyword(s, ALERT) THEN "Alert"
    ELSE "Info"

\* message() from the type word on
message_body(s1, msg_type) ==
    PTry(Parser_extract_until(
             Parser_delete_buffer(Parser_expect_string(
                 Parser_extract_until_unchecked(s1, NL), NEWLINE)),
             COLONS3),
         LAMBDA s2 :
    Parser_consume_unwrap(s2, LAMBDA s3, content :
    block_end(s3, [kind |-> "Message", msg_type |-> msg_type], content)))

message(s0) ==
    PTry(Parser_collect_text(s0), LAMBDA s1 :
    Bind(Parser_advance_spaces(Parser_expect_string(Parser_skip(s1, ":"), MESSAGE_TAG)),
         LAMBDA s2 : message_body(s2, message_type_at(s2))))

parse_block_element(s) ==
    IF Parser_peek(s) = "h"
    THEN IF ~(Parser_matches_keyword(s, HTTPS) \/ Parser_matches_keyword(s, HTTP))
         THEN POk(Parser_advance(s))
         ELSE url(s)
    ELSE IF Parser_peek(s) = ":"
    THEN IF Parser_matches_keyword(s, DETAILS_OPEN) THEN details(s)
         ELSE IF Parser_matches_keyword(s, MESSAGE_OPEN) THEN message(s)
         ELSE POk(s)
    ELSE IF Parser_peek(s) = BQ THEN code_block(s)
    ELSE IF Parser_peek(s) = "!"
    THEN IF ~Parser_matches_keyword(s, IMG_OPEN) THEN POk(s) ELSE image(s)
    ELSE POk(s)

parse_element(s) ==
    IF Parser_peek(s) = None THEN POk(s)
    ELSE IF Parser_peek(s) = "[" THEN square_brackets_or_link(s)
    ELSE IF Parser_peek(s) = "<"
    THEN IF ~Parser_matches_keyword(s, MACRO_OPEN) THEN POk(Parser_advance(s))
         ELSE macro_call(s)
    ELSE IF Parser_peek(s) = "^"
    THEN IF ~Parser_matches_keyword(s, INLINE_FN_OPEN) THEN POk(Parser_advance(s))
         ELSE inline_footnote(s)
    ELSE IF Parser_peek(s) = NL THEN parse_block_element(Parser_advance(s))
    ELSE POk(Parser_advance(s))

\* if let Err(error) = self.parse_element() { self.errors.push(error) }
Parser_push_error(r) ==
    IF r.err # <<>>
    THEN [s |-> [r.s EXCEPT !.errors = Append(@, r.err[1])], err |-> <<>>, panic |-> r.panic]
    ELSE r

\* one turn of the while loop of parse
parse_turn(s) == Parser_push_error(parse_element(s))

parse_loop(s) ==
    IF Parser_is_at_end(s) THEN POk(s) ELSE PTry(parse_turn(s), LAMBDA t : parse_loop(t))

\* ---- serde_yaml::from_str::<ZetaFrontmatter> (parser.rs:101) ----
\* The mapping syntax the model reads: one `key: value` entry per line; the
\* topics are a flow sequence `[a, b]`.  title, emoji, type, topics and
\* published are required, only is optional, other keys are ignored.

COLON_SPACE == <<":", " ">>
COMMA_SPACE == <<",", " ">>
KEY_TITLE == <<"t", "i", "t", "l", "e">>
KEY_EMOJI == <<"e", "m", "o", "j", "i">>
KEY_TYPE == <<"t", "y", "p", "e">>
KEY_TOPICS == <<"t", "o", "p", "i", "c", "s">>
KEY_PUBLISHED == <<"p", "u", "b", "l", "i", "s", "h", "e", "d">>
KEY_ONLY == <<"o", "n", "l", "y">>
LIT_TRUE == <<"t", "r", "u", "e">>
LIT_FALSE == <<"f", "a", "l", "s", "e">>
PLATFORM_ZENN == {<<"Z", "e", "n", "n">>, <<"z", "e", "n", "n">>}
PLATFORM_QIITA == {<<"Q", "i", "i", "t", "a">>, <<"q", "i", "i", "t", "a">>}

\* the index of the first occurrence of sep in str at or after i, 0 if none
OccursAt(str, sep, k) == SubSeq(str, k, k + Len(sep) - 1) = sep

FindFrom(str, sep, i) ==
    IF \A k \in i..(Len(str) - Len(sep) + 1) : ~OccursAt(str, sep, k) THEN 0
    ELSE CHOOSE k \in i..(Len(str) - Len(sep) + 1) :
            OccursAt(str, sep, k) /\ \A j \in i..(k - 1) : ~OccursAt(str, sep, j)

RECURSIVE SplitOn(_, _)
SplitOn(str, sep) ==
    IF FindFrom(str, sep, 1) = 0 THEN <<str>>
    ELSE <<SubSeq(str, 1, FindFrom(str, sep, 1) - 1)>>
         \o SplitOn(SubSeq(str, FindFrom(str, sep, 1) + Len(sep), Len(str)), sep)

\* a line `key: value` as [key, value]; a line without ": " has no key
FmEntry(line) ==
    IF FindFrom(line, COLON_SPACE, 1) = 0 THEN [key |-> <<>>, value |-> line]
    ELSE [key |-> SubSeq(line, 1, FindFrom(line, COLON_SPACE, 1) - 1),
          value |-> SubSeq(line, FindFrom(line, COLON_SPACE, 1) + 2, Len(line))]

FmEntries(lines) == [i \in 1..Len(lines) |-> FmEntry(lines[i])]

FmHas(entries, k) == \E i \in 1..Len(entries) : entries[i].key = k

FmValue(entries, k) == entries[CHOOSE i \in 1..Len(entries) : entries[i].key = k].value

\* a flow sequence `[a, b]`: [ok, items]
FmSequence(v) ==
    IF Len(v) < 2 \/ v[1] # "[" \/ v[Len(v)] # "]" THEN [ok |-> FALSE, items |-> <<>>]
    ELSE IF Len(v) = 2 THEN [ok |-> TRUE, items |-> <<>>]
    ELSE [ok |-> TRUE, items |-> SplitOn(SubSeq(v, 2, Len(v) - 1), COMMA_SPACE)]

FmPlatform(v) ==
    IF v \in PLATFORM_ZENN THEN <<"Zenn">> ELSE IF v \in PLATFORM_QIITA THEN <<"Qiita">> ELSE <<>>

\* the ZetaFrontmatter of the entries: [ok, frontmatter]
FmStruct(entries) ==
    IF /\ \A i \in 1..Len(entries) : entries[i].key # <<>>
       /\ \A i, j \in 1..Len(entries) : entries[i].key = entries[j].key => i = j
       /\ \A k \in {KEY_TITLE, KEY_EMOJI, KEY_TYPE, KEY_TOPICS, KEY_PUBLISHED} :
             FmHas(entries, k)
       /\ FmSequence(FmValue(entries, KEY_TOPICS)).ok
       /\ FmValue(entries, KEY_PUBLISHED) \in {LIT_TRUE, LIT_FALSE}
       /\ FmHas(entries, KEY_ONLY) => FmPlatform(FmValue(entries, KEY_ONLY)) # <<>>
    THEN [ok |-> TRUE,
          frontmatter |->
            [title |-> FmValue(entries, KEY_TITLE),
             emoji |-> FmValue(entries, KEY_EMOJI),
             type |-> FmValue(entries, KEY_TYPE),
             topics |-> FmSequence(FmValue(entries, KEY_TOPICS)).items,
             published |-> FmValue(entries, KEY_PUBLISHED) = LIT_TRUE,
             only |-> IF FmHas(entries, KEY_ONLY)
                      THEN FmPlatform(FmValue(entries, KEY_ONLY)) ELSE <<>>]]
    ELSE [ok |-> FALSE, frontmatter |-> <<>>]

ZetaFrontmatter_from_str(header) ==
    FmStruct(FmEntries(SelectSeq(SplitLines(header), LAMBDA l : l # <<>>)))

\* parse_file up to the deserialization of the header: [s, header, panic]
parse_file_header(s0) ==
    Bind(Parser_push_error(Parser_extract_until(
             Parser_delete_buffer(Parser_expect_string(s0, SEPARATOR)), SEPARATOR)),
         LAMBDA r :
    Parser_consume_unwrap(r.s, LAMBDA s1, header :
        [s |-> Parser_delete_buffer(Parser_expect_string(s1, SEPARATOR)),
         err |-> <<>>, panic |-> FALSE, header |-> header]))

\* the Err arm of the match on yaml_result.  The position serde_yaml reports
\* is not modelled: the error is placed at the parser's own position, the
\* branch of an error without location.
parse_file_invalid(s) ==
    [s EXCEPT !.errors = Append(@, ParseError("InvalidFrontMatter", <<>>, s.row, s.col))]

\* ------------------------------------------------------------------------
\* Source files of the parser
\* ------------------------------------------------------------------------

RECURSIVE JoinWith(_, _)
JoinWith(items, sep) ==
    IF items = <<>> THEN <<>>
    ELSE IF Len(items) = 1 THEN items[1]
    ELSE items[1] \o sep \o JoinWith(Tail(items), sep)

TopicNames == <<<<"a">>, <<"b">>, <<"c">>, <<"d">>, <<"e">>, <<"f">>, <<"g">>>>

\* the frontmatter text declaring the first n topics
HeaderWith(n, only) ==
    <<"t", "i", "t", "l", "e", ":", " ", "t", NL, "e", "m", "o", "j", "i", ":", " ", "e", NL, "t", "y", "p", "e", ":", " ", "t", "e", "c", "h", NL, "t", "o", "p", "i", "c", "s", ":", " ", "[">>
    \o JoinWith(SubSeq(TopicNames, 1, n), COMMA_SPACE)
    \o <<"]", NL, "p", "u", "b", "l", "i", "s", "h", "e", "d", ":", " ", "t", "r", "u", "e", NL>> \o only

\* the frontmatter block of a file
Fenced(header) == SEPARATOR \o header \o SEPARATOR

GoodHead == Fenced(HeaderWith(2, <<>>))

FileHeadsOfParser ==
    {Fenced(HeaderWith(n, <<>>)) : n \in 0..7}
    \cup {Fenced(HeaderWith(1, <<"o", "n", "l", "y", ":", " ", "z", "e", "n", "n", NL>>)), Fenced(HeaderWith(6, <<"o", "n", "l", "y", ":", " ", "Q", "i", "i", "t", "a", NL>>)),
          Fenced(<<"t", "i", "t", "l", "e", " ", "t", NL>>), SEPARATOR \o HeaderWith(1, <<>>), SEPARATOR \o SEPARATOR,
          <<>>}

ParseFrags ==
    {IMG_OPEN, INLINE_FN_OPEN, <<"[">>, RBRACKET, LPAREN, RPAREN, BACKTICK, NEWLINE,
     COLONS3, COLON, <<"a">>, MESSAGE_TAG \o <<" ">>, DETAILS_TAG, MACRO_OPEN}

FragBodies == {Flatten(q) : q \in SeqsUpTo(ParseFrags, MaxFrags)}

MessageWords == {INFO, WARN, ALERT}

\* the body texts a message block is given
PlainBodies == {<<>>, <<"H", "e", "l", "l", "o">>, <<"a", " ", "b">>, <<"a", ":", "b">>, <<"s", "e", "e", ":", " ", "x">>}

\* a blank line, then the block `:::message T`, B, newline, `:::`
MessageBlock(T, B) ==
    NEWLINE \o MESSAGE_OPEN \o <<" ">> \o T \o NEWLINE \o B \o NEWLINE \o COLONS3

MessageBodies == {MessageBlock(T, B) : T \in MessageWords, B \in PlainBodies}

\* the levels a block is given
Levels == 0..2

Fence(level) == COLONS3 \o Repeat(COLON, level)

\* a block of level outer holding a line of text and a block of level inner
NestedBlock(outerTag, outer, innerTag, inner) ==
    NEWLINE \o Fence(outer) \o outerTag \o <<" ", "i", "n", "f", "o", NL, "a", NL>>
    \o Fence(inner) \o innerTag \o <<" ", "w", "a", "r", "n", NL, "b", NL>> \o Fence(inner) \o NEWLINE \o Fence(outer)

BlockTags == {MESSAGE_TAG, DETAILS_TAG}

NestedBodies ==
    {NestedBlock(ot, o, it, i) : ot \in BlockTags, o \in Levels, it \in BlockTags, i \in Levels}

OtherBodies ==
    {<<NL, ":", ":", ":", "m", "e", "s", "s", "a", "g", "e", " ", "i", "n", "f", "o", NL, ":", ":", ":">>, <<NL, ":", ":", ":", "m", "e", "s", "s", "a", "g", "e", " ", "o", "o", "p", "s", NL, "x", NL, ":", ":", ":">>, <<NL, ":", ":", ":", "m", "e", "s", "s", "a", "g", "e", " ", "i", "n", "f", "o", NL, "x", NL>>,
     <<NL, ":", ":", ":", "d", "e", "t", "a", "i", "l", "s", " ", "t", NL, "x", " ", "^", "[", "n", "]", " ", "y", NL, ":", ":", ":", NL>>, <<":", ":", ":", "m", "e", "s", "s", "a", "g", "e", " ", "a", "l", "e", "r", "t", NL, "H", "e", "l", "l", "o", NL, ":", ":", ":">>,
     <<NL, "h", "t", "t", "p", ":", "/", "/", "x", " ", "y">>, <<NL, "!", "[", "a", "]", "(", "u", ")">>, <<NL, "!", "[", "a", "]", "(", ")">>, <<"<", "m", "a", "c", "r", "o", ">", "z", "e", "n", "n", ":", " ", "A", NL, "q", "i", "i", "t", "a", ":", " ", "B", "<", "/", "m", "a", "c", "r", "o", ">", "x">>,
     <<"<", "m", "a", "c", "r", "o", ">", "A", "<", "/", "m", "a", "c", "r", "o", ">">>, <<"^", "[", "n", "]">>, <<"x", "^", "[">>}

\* a block of level 0 that no fence of level 0 closes: the text ends, or
\* the one fence after it is of level 1
UnclosedBodies ==
    {NEWLINE \o COLONS3 \o opening \o <<NL, "x", NL>> \o closing :
        opening \in {MESSAGE_TAG \o <<" ", "i", "n", "f", "o">>, DETAILS_TAG \o <<" ", "t">>},
        closing \in {<<>>, Fence(1)}}

\* a message block whose type word is none of info, warn, alert
InvalidTypeWords == {<<"o", "o", "p", "s">>, <<"n", "o", "t", "e">>, <<"I", "n", "f", "o">>}
InvalidTypeBodies == {MessageBlock(T, <<"x">>) : T \in InvalidTypeWords}

ParserSources ==
    {GoodHead \o b : b \in FragBodies \cup MessageBodies \cup NestedBodies \cup OtherBodies
                          \cup UnclosedBodies \cup InvalidTypeBodies}
    \cup {h \o b : h \in FileHeadsOfParser,
                   b \in {<<>>, <<"a">>, <<NL, ":", ":", ":", "m", "e", "s", "s", "a", "g", "e", " ", "i", "n", "f", "o", NL, "x">>, <<"^", "[">>}}

\* ------------------------------------------------------------------------
\* The parser as a state machine: Parser::parse_file
\* ------------------------------------------------------------------------

NoFrontmatter == <<>>
NoParse == [ok |-> FALSE, frontmatter |-> NoFrontmatter, elements |-> <<>>, errors |-> <<>>]

ParseInit ==
    /\ file \in ParserSources
    /\ parser = Parser_new(file)
    /\ ppc = "head"
    /\ parsed_fm = NoFrontmatter
    /\ parse_result = NoParse

\* parse_file up to its call of parse, or to its Err return
ParseFileHead ==
    /\ ppc = "head"
    /\ LET h == parse_file_header(parser)
           yaml == ZetaFrontmatter_from_str(h.header)
       IN  IF h.panic
           THEN /\ ppc' = "panic"
                /\ UNCHANGED <<parser, parsed_fm, parse_result>>
           ELSE IF yaml.ok
           THEN /\ ppc' = "loop"
                /\ parser' = h.s
                /\ parsed_fm' = yaml.frontmatter
                /\ UNCHANGED parse_result
           ELSE /\ ppc' = "done"
                /\ parser' = parse_file_invalid(h.s)
                /\ parse_result' = [NoParse EXCEPT !.errors = parse_file_invalid(h.s).errors]
                /\ UNCHANGED parsed_fm
    /\ UNCHANGED file
    /\ UNCHANGED <<scan_vars, compile_vars>>

\* one turn of the while loop of parse
ParseTurn ==
    /\ ppc = "loop"
    /\ ~Parser_is_at_end(parser)
    /\ LET r == parse_turn(parser)
       IN  IF r.panic
           THEN ppc' = "panic" /\ UNCHANGED parser
           ELSE ppc' = "loop" /\ parser' = r.s
    /\ UNCHANGED <<file, parsed_fm, parse_result>>
    /\ UNCHANGED <<scan_vars, compile_vars>>

\* the end of parse and of parse_file
ParseReturn ==
    /\ ppc = "loop"
    /\ Parser_is_at_end(parser)
    /\ LET r == parse(parser)
       IN  IF r.panic
           THEN ppc' = "panic" /\ UNCHANGED parse_result
           ELSE /\ ppc' = "done"
                /\ parse_result' =
                      [ok |-> r.ok,
                       frontmatter |-> IF r.ok THEN parsed_fm ELSE NoFrontmatter,
                       elements |-> r.elements, errors |-> r.errors]
    /\ UNCHANGED <<file, parser, parsed_fm>>
    /\ UNCHANGED <<scan_vars, compile_vars>>

ParseNext == ParseFileHead \/ ParseTurn \/ ParseReturn

\* ------------------------------------------------------------------------
\* Properties of the parser
\* ------------------------------------------------------------------------

\* the kind of element a block tag opens
KindOfTag(tag) == IF tag = MESSAGE_TAG THEN "Message" ELSE "Details"

\* the MessageType a type word names
MessageTypeOf(word) == IF word = INFO THEN "Info" ELSE IF word = WARN THEN "Warn" ELSE "Alert"

\* parse_file has returned, or has panicked
Parsed == ppc \in {"done", "panic"}

HasError(error_type) ==
    \E k \in 1..Len(parse_result.errors) : parse_result.errors[k].error_type = error_type

\* some element of kind outer holds an element of kind inner in its body
NestsIn(elements, outer, inner) ==
    \E k \in 1..Len(elements) :
        /\ elements[k].kind = outer
        /\ \E j \in 1..Len(elements[k].body) : elements[k].body[j].kind = inner

\* C3: for every nested pair of Message/Details blocks, an inner block whose
\* level is not below the level of the enclosing block makes the parse fail
\* with InvalidNestingLevel, and an inner block of a strictly lower level
\* makes the parse succeed with the inner block an element of the body of
\* the outer block.
C3_NestingLevels ==
    \A ot \in BlockTags, it \in BlockTags, o \in Levels, i \in Levels :
        (Parsed /\ file = GoodHead \o NestedBlock(ot, o, it, i)) =>
            /\ ppc = "done"
            /\ i >= o => ~parse_result.ok /\ HasError("InvalidNestingLevel")
            /\ i < o => /\ parse_result.ok
                        /\ NestsIn(parse_result.elements, KindOfTag(ot), KindOfTag(it))

\* the files that declare n topics
DeclaresTopics(n) ==
    \E only \in {<<>>, <<"o", "n", "l", "y", ":", " ", "Q", "i", "i", "t", "a", NL>>} :
        IsPrefix(Fenced(HeaderWith(n, only)), file)

\* C4: a file whose frontmatter declares more than 5 topics fails to parse
\* with TooManyTopics carrying the declared topics, and no document with
\* more than 5 topics is ever returned.
C4_TooManyTopics ==
    ppc = "done" =>
        /\ parse_result.ok => Len(parse_result.frontmatter.topics) <= 5
        /\ \A n \in 6..Len(TopicNames) :
              DeclaresTopics(n) =>
                  /\ ~parse_result.ok
                  /\ \E k \in 1..Len(parse_result.errors) :
                        /\ parse_result.errors[k].error_type = "TooManyTopics"
                        /\ parse_result.errors[k].arg = SubSeq(TopicNames, 1, n)

\* C5: for every type word T and every plain body B, the top-level block
\* `:::message T`, B, newline, `:::` parses to exactly one Message element,
\* of type T, whose body is the one Text B + newline: nothing of B is
\* dropped or cut short.  (The Message the parser builds has no level.)
C5_MessageBlock ==
    \A T \in MessageWords, B \in PlainBodies :
        (Parsed /\ file = GoodHead \o MessageBlock(T, B)) =>
            /\ ppc = "done"
            /\ parse_result.ok
            /\ SelectSeq(parse_result.elements, LAMBDA e : e.kind # "Text" \/ e.text # NEWLINE)
               = <<[kind |-> "Message", msg_type |-> MessageTypeOf(T),
                    body |-> <<[kind |-> "Text", text |-> B \o NEWLINE]>>]>>

\* ------------------------------------------------------------------------
\* Compilers (compiler.rs)
\* ------------------------------------------------------------------------

\* the decimal digits of a natural number: format!("{}", i)
RECURSIVE to_string(_)
to_string(i) ==
    IF i < 10 THEN <<SubSeq(<<"0", "1", "2", "3", "4", "5", "6", "7", "8", "9">>, i + 1, i + 1)[1]>>
    ELSE to_string(i \div 10) \o to_string(i % 10)

ZETA_INLINE == <<"z", "e", "t", "a", ".", "i", "n", "l", "i", "n", "e", ".">>
LOCAL_IMAGES == <<"/", "i", "m", "a", "g", "e", "s">>
RAW_GITHUB == <<"h", "t", "t", "p", "s", ":", "/", "/", "r", "a", "w", ".", "g", "i", "t", "h", "u", "b", "u", "s", "e", "r", "c", "o", "n", "t", "e", "n", "t", ".", "c", "o", "m", "/">>

\* str::starts_with
starts_with(str, prefix) == IsPrefix(prefix, str)

\* str::split(' ').last(): the text after the last space
RECURSIVE LastWord(_)
LastWord(str) ==
    IF \E i \in 1..Len(str) : str[i] = " "
    THEN LastWord(SubSeq(str, (CHOOSE i \in 1..Len(str) : str[i] = " ") + 1, Len(str)))
    ELSE str

\* String::pop
pop(str) == IF str = <<>> THEN str ELSE SubSeq(str, 1, Len(str) - 1)

\* What the world around image_path_github answers: whether Zeta.toml can be
\* read and parsed (and the repository it names), whether git and grep can
\* be started, whether `git remote show origin` succeeds, and what grep
\* prints.
Env(read_ok, parse_ok, git_spawn_ok, git_success, grep_spawn_ok, grep_out) ==
    [read_ok |-> read_ok, parse_ok |-> parse_ok, repository |-> <<"u", "/", "r">>,
     git_spawn_ok |-> git_spawn_ok, git_success |-> git_success,
     grep_spawn_ok |-> grep_spawn_ok, grep_out |-> grep_out]

HEAD_LINE == <<" ", " ", "H", "E", "A", "D", " ", "b", "r", "a", "n", "c", "h", ":", " ", "m", "a", "i", "n", NL>>

EnvResolved == Env(TRUE, TRUE, TRUE, TRUE, TRUE, HEAD_LINE)
EnvUnreadable == Env(FALSE, TRUE, TRUE, TRUE, TRUE, HEAD_LINE)
EnvUnparsable == Env(TRUE, FALSE, TRUE, TRUE, TRUE, HEAD_LINE)
EnvNoGit == Env(TRUE, TRUE, FALSE, TRUE, TRUE, HEAD_LINE)
EnvGitFails == Env(TRUE, TRUE, TRUE, FALSE, TRUE, HEAD_LINE)
EnvNoGrep == Env(TRUE, TRUE, TRUE, TRUE, FALSE, HEAD_LINE)
EnvNoBranch == Env(TRUE, TRUE, TRUE, TRUE, TRUE, <<>>)

Envs == {EnvResolved, EnvUnreadable, EnvUnparsable, EnvNoGit, EnvGitFails, EnvNoGrep,
         EnvNoBranch}

\* image_path_github: [path, panic]; spawn().unwrap() panics when the
\* program cannot be started
image_path_github(path, env) ==
    IF ~env.read_ok THEN [path |-> path, panic |-> FALSE]
    ELSE IF ~env.parse_ok THEN [path |-> path, panic |-> FALSE]
    ELSE IF ~env.git_spawn_ok THEN [path |-> path, panic |-> TRUE]
    ELSE IF ~env.git_success THEN [path |-> path, panic |-> FALSE]
    ELSE IF ~env.grep_spawn_ok THEN [path |-> path, panic |-> TRUE]
    ELSE IF LastWord(env.grep_out) = <<>> THEN [path |-> path, panic |-> FALSE]
    ELSE [path |-> RAW_GITHUB \o env.repository \o <<"/">> \o pop(LastWord(env.grep_out))
                   \o path,
          panic |-> FALSE]

\* QiitaCompiler::new: the footnotes set and the inline_footnotes map.  The
\* map is kept as its entries in insertion order; the order in which a
\* HashMap is iterated is not the order of insertion (see iteration_order).
QiitaCompiler_new(existing_header) ==
    [existing_fm |-> existing_header, footnotes |-> {}, inline_footnotes |-> <<>>]

contains_key(map, name) == \E i \in 1..Len(map) : map[i].name = name

\* HashMap::insert of a key the map may hold already
map_insert(map, name, content) ==
    IF contains_key(map, name)
    THEN [i \in 1..Len(map) |->
            IF map[i].name = name THEN [name |-> name, content |-> content] ELSE map[i]]
    ELSE Append(map, [name |-> name, content |-> content])

\* The entries of a HashMap in the order an iteration visits them.  The
\* order is unspecified and differs from one map and one run to the next
\* (RandomState); ord, a permutation of 1..n, is the order of this one: the
\* entries come as ord lists their indexes, entries beyond n after them.
iteration_order(map, ord) ==
    [k \in 1..Len(SelectSeq(ord, LAMBDA i : i <= Len(map))) |->
        map[SelectSeq(ord, LAMBDA i : i <= Len(map))[k]]]
    \o SubSeq(map, Len(ord) + 1, Len(map))

\* format!("\n[^{}]: {}\n", name, content) for every entry
RECURSIVE footnote_definitions(_)
footnote_definitions(entries) ==
    IF entries = <<>> THEN <<>>
    ELSE <<NL, "[", "^">> \o Head(entries).name \o <<"]", ":", " ">> \o Head(entries).content \o NEWLINE
         \o footnote_definitions(Tail(entries))

\* the loop of the InlineFootnote arm: the first name zeta.inline.i, i from
\* 1, that is no key of inline_footnotes
RECURSIVE inline_name(_, _)
inline_name(map, i) ==
    IF ~contains_key(map, ZETA_INLINE \o to_string(i)) THEN ZETA_INLINE \o to_string(i)
    ELSE inline_name(map, i + 1)

msg_type_qiita(msg_type) ==
    IF msg_type = "Info" THEN INFO ELSE IF msg_type = "Warn" THEN WARN ELSE ALERT

\* a Zenn compiler that leaves the type word of every message out
msg_type_zenn_blank(msg_type) == <<>>

msg_type_zenn(msg_type) == IF msg_type = "Alert" THEN ALERT ELSE <<>>

\* A rendering of the Qiita compiler: the compiler after it, the text, and
\* whether the call panicked.
QOut(c, out) == [c |-> c, out |-> out, panic |-> FALSE]

RECURSIVE Qiita_compile_element(_, _, _, _)
RECURSIVE Qiita_fold(_, _, _, _)

\* QiitaCompiler::compile_elements: the elements in order, then the
\* definition of every inline footnote of the map
Qiita_compile_elements(c, elements, env, ord) ==
    Bind(Qiita_fold(c, elements, env, ord), LAMBDA r :
        [r EXCEPT !.out = @ \o footnote_definitions(
                                 iteration_order(r.c.inline_footnotes, ord))])

\* the Image arm
Qiita_image(c, element, env) ==
    IF starts_with(element.url, LOCAL_IMAGES)
    THEN Bind(image_path_github(element.url, env), LAMBDA p :
            [c |-> c, panic |-> p.panic,
             out |-> <<"!", "[">> \o element.alt \o <<"]", "(">> \o p.path \o <<")">>])
    ELSE QOut(c, <<"!", "[">> \o element.alt \o <<"]", "(">> \o element.url \o <<")">>)

\* the InlineFootnote arm
Qiita_inline_footnote(c, content) ==
    Bind(inline_name(c.inline_footnotes, 1), LAMBDA name :
        QOut([c EXCEPT !.inline_footnotes = map_insert(@, name, content)],
             <<"[", "^">> \o name \o <<"]">>))

\* Message and Details arms that render the body with the compiler of the
\* enclosing elements
Qiita_block_shared(c, body, env, ord, before, after) ==
    Bind(Qiita_compile_elements(c, body, env, ord), LAMBDA b :
        [c |-> b.c, panic |-> b.panic, out |-> before \o b.out \o after])

\* the Message and Details arms: the body rendered by a new compiler
Qiita_block(c, body, env, ord, before, after) ==
    Bind(Qiita_compile_elements(QiitaCompiler_new(<<>>), body, env, ord), LAMBDA b :
        [c |-> c, panic |-> b.panic, out |-> before \o b.out \o after])

Qiita_compile_element(c, element, env, ord) ==
    IF element.kind = "Text" THEN QOut(c, element.text)
    ELSE IF element.kind = "Url" THEN QOut(c, NEWLINE \o element.text \o NEWLINE)
    ELSE IF element.kind = "Macro" THEN Qiita_compile_elements(c, element.qiita, env, ord)
    ELSE IF element.kind = "Image" THEN Qiita_image(c, element, env)
    ELSE IF element.kind = "InlineFootnote" THEN Qiita_inline_footnote(c, element.text)
    ELSE IF element.kind = "Footnote"
    THEN QOut([c EXCEPT !.footnotes = @ \cup {element.text}],
              <<"[", "^">> \o element.text \o <<"]">>)
    ELSE IF element.kind = "Message"
    THEN Qiita_block(c, element.body, env, ord,
                     <<":", ":", ":", "n", "o", "t", "e", " ">> \o msg_type_qiita(element.msg_type) \o NEWLINE, COLONS3)
    ELSE Qiita_block(c, element.body, env, ord,
                     <<"<", "d", "e", "t", "a", "i", "l", "s", ">", "<", "s", "u", "m", "m", "a", "r", "y", ">">> \o element.title \o <<"<", "/", "s", "u", "m", "m", "a", "r", "y", ">", NL, NL>>,
                     <<"<", "/", "d", "e", "t", "a", "i", "l", "s", ">", NL>>)

\* one step of the map over the elements: the text so far and one more
Qiita_step(acc, element, env, ord) ==
    Bind(Qiita_compile_element(acc.c, element, env, ord), LAMBDA r :
        [c |-> r.c, out |-> acc.out \o r.out, panic |-> r.panic])

\* elements.into_iter().map(|element| self.compile_element(element)).collect()
Qiita_fold(c, elements, env, ord) ==
    IF elements = <<>> THEN QOut(c, <<>>)
    ELSE Bind(Qiita_compile_element(c, Head(elements), env, ord), LAMBDA first :
            IF first.panic THEN first
            ELSE Bind(Qiita_fold(first.c, Tail(elements), env, ord), LAMBDA rest :
                    [c |-> rest.c, out |-> first.out \o rest.out, panic |-> rest.panic]))

RECURSIVE Zenn_compile_element(_)

\* ZennCompiler::compile_elements
RECURSIVE Zenn_compile_elements(_)

\* a Zenn compiler that renders the qiita content of a macro
Zenn_macro_qiita(element) == Zenn_compile_elements(element.qiita)

\* the Macro arm
Zenn_macro(element) == Zenn_compile_elements(element.zenn)

Zenn_compile_elements(elements) ==
    IF elements = <<>> THEN <<>>
    ELSE Zenn_compile_element(Head(elements)) \o Zenn_compile_elements(Tail(elements))

\* a Zenn compiler that gives every block the fence of level 0
Zenn_block_flat(level, tag, word, body) ==
    COLONS3 \o tag \o <<" ">> \o word \o NEWLINE \o Zenn_compile_elements(body) \o COLONS3

\* the Message and Details arms:
\* format!(":::{0}<tag> {1}\n{2}:::{0}", ":".repeat(level), word, body)
Zenn_block(level, tag, word, body) ==
    COLONS3 \o Repeat(COLON, level) \o tag \o <<" ">> \o word \o NEWLINE
    \o Zenn_compile_elements(body) \o COLONS3 \o Repeat(COLON, level)

Zenn_compile_element(element) ==
    IF element.kind = "Text" THEN element.text
    ELSE IF element.kind = "Url" THEN NEWLINE \o element.text \o NEWLINE
    ELSE IF element.kind = "Macro" THEN Zenn_macro(element)
    ELSE IF element.kind = "Image"
    THEN <<"!", "[">> \o element.alt \o <<"]", "(">> \o element.url \o <<")">>
    ELSE IF element.kind = "InlineFootnote" THEN <<"^", "[">> \o element.text \o <<"]">>
    ELSE IF element.kind = "Footnote" THEN <<"[", "^">> \o element.text \o <<"]">>
    ELSE IF element.kind = "Message"
    THEN Zenn_block(element.level, MESSAGE_TAG, msg_type_zenn(element.msg_type),
                    element.body)
    ELSE Zenn_block(element.level, DETAILS_TAG, element.title, element.body)

\* --- the frontmatter the compilers write (serde_yaml::Serializer) ---------

UPDATED_AT == <<"u", "p", "d", "a", "t", "e", "d", "_", "a", "t", ":">>
QUOTE == <<"'">>

\* whether serde_yaml writes the string in quotes: the empty string, a
\* string YAML would read as another type, and one a plain scalar cannot hold
yaml_quoted(str) ==
    \/ str = <<>>
    \/ str \in {LIT_TRUE, LIT_FALSE, <<"n", "u", "l", "l">>, <<"~">>}
    \/ \A i \in 1..Len(str) : str[i] \in {"0", "1", "2", "3", "4", "5", "6", "7", "8", "9"}
    \/ Head(str) \in YamlIndicators \cup {" ", "\""}
    \/ str[Len(str)] \in {" ", ":"}
    \/ FindFrom(str, COLON_SPACE, 1) # 0
    \/ FindFrom(str, <<" ", "#">>, 1) # 0

\* a string as a YAML scalar
yaml_str(str) == IF yaml_quoted(str) THEN QUOTE \o str \o QUOTE ELSE str

yaml_bool(b) == IF b THEN LIT_TRUE ELSE LIT_FALSE

\* Option<String>
yaml_option(o) == IF o = <<>> THEN <<"n", "u", "l", "l">> ELSE yaml_str(o[1])

\* Vec<String> under its key: an empty flow sequence, or one `- item` line
\* for each item
RECURSIVE yaml_items(_)
yaml_items(items) ==
    IF items = <<>> THEN <<>>
    ELSE <<"-", " ">> \o yaml_str(Head(items)) \o NEWLINE \o yaml_items(Tail(items))

yaml_seq(key, items) ==
    IF items = <<>> THEN key \o <<":", " ", "[", "]", NL>> ELSE key \o <<":", NL>> \o yaml_items(items)

yaml_line(key, scalar) == key \o COLON_SPACE \o scalar \o NEWLINE

\* a compile_frontmatter that takes nothing from the frontmatter of the
\* earlier build
QiitaFrontmatter_defaults(c, fm) ==
    [title |-> fm.title, tags |-> fm.topics, private |-> FALSE,
     updated_at |-> <<>>, id |-> <<>>, organization_url_name |-> <<>>,
     slide |-> FALSE, ignorePublish |-> ~fm.published]

\* the struct QiitaFrontmatter that compile_frontmatter builds
QiitaFrontmatter(c, fm) ==
    IF c.existing_fm # <<>>
    THEN [title |-> fm.title, tags |-> fm.topics,
          private |-> c.existing_fm[1].private,
          updated_at |-> c.existing_fm[1].updated_at,
          id |-> c.existing_fm[1].id,
          organization_url_name |-> c.existing_fm[1].organization_url_name,
          slide |-> c.existing_fm[1].slide,
          ignorePublish |-> ~fm.published]
    ELSE [title |-> fm.title, tags |-> fm.topics, private |-> FALSE,
          updated_at |-> <<>>, id |-> <<>>, organization_url_name |-> <<>>,
          slide |-> FALSE, ignorePublish |-> ~fm.published]

\* QiitaFrontmatter::serialize, between the two `---` lines
QiitaFrontmatter_serialize(q) ==
    <<"-", "-", "-", NL>>
    \o yaml_line(KEY_TITLE, yaml_str(q.title))
    \o yaml_seq(<<"t", "a", "g", "s">>, q.tags)
    \o yaml_line(<<"p", "r", "i", "v", "a", "t", "e">>, yaml_bool(q.private))
    \o yaml_line(<<"u", "p", "d", "a", "t", "e", "d", "_", "a", "t">>, yaml_str(q.updated_at))
    \o yaml_line(<<"i", "d">>, yaml_option(q.id))
    \o yaml_line(<<"o", "r", "g", "a", "n", "i", "z", "a", "t", "i", "o", "n", "_", "u", "r", "l", "_", "n", "a", "m", "e">>, yaml_option(q.organization_url_name))
    \o yaml_line(<<"s", "l", "i", "d", "e">>, yaml_bool(q.slide))
    \o yaml_line(<<"i", "g", "n", "o", "r", "e", "P", "u", "b", "l", "i", "s", "h">>, yaml_bool(q.ignorePublish))
    \o <<"-", "-", "-", NL>>

\* the index of the first line that starts with `updated_at:`
updated_at_position(lines) ==
    CHOOSE i \in 1..Len(lines) :
        /\ starts_with(lines[i], UPDATED_AT)
        /\ \A j \in 1..(i - 1) : ~starts_with(lines[j], UPDATED_AT)

\* the end of compile_frontmatter: the updated_at line is put in quotes
\* unless it ends with one
quote_updated_at(result, lines, at) ==
    IF lines[at][Len(lines[at])] \in {"\"", "'"} THEN result
    ELSE JoinWith([lines EXCEPT ![at] = UPDATED_AT \o <<" ", "'">>
                                        \o SubSeq(lines[at], 13, Len(lines[at])) \o QUOTE],
                  NEWLINE)

\* QiitaCompiler::compile_frontmatter
Qiita_compile_frontmatter(c, fm) ==
    Bind(QiitaFrontmatter_serialize(QiitaFrontmatter(c, fm)), LAMBDA result :
    Bind(SplitLines(result), LAMBDA lines :
        quote_updated_at(result, lines, updated_at_position(lines))))

\* ZennCompiler::compile_header
Zenn_compile_header(fm) ==
    <<"-", "-", "-", NL>>
    \o yaml_line(KEY_TITLE, yaml_str(fm.title))
    \o yaml_line(KEY_EMOJI, yaml_str(fm.emoji))
    \o yaml_line(KEY_TYPE, yaml_str(fm.type))
    \o yaml_seq(KEY_TOPICS, fm.topics)
    \o yaml_line(KEY_PUBLISHED, yaml_bool(fm.published))
    \o <<"-", "-", "-", NL>>

\* ZennCompiler::compile
Zenn_compile(doc) ==
    Zenn_compile_header(doc.frontmatter) \o Zenn_compile_elements(doc.elements)

\* QiitaCompiler::compile
Qiita_compile(c, doc, env, ord) ==
    Bind(Qiita_compile_frontmatter(c, doc.frontmatter), LAMBDA header :
    Bind(Qiita_compile_elements(c, doc.elements, env, ord), LAMBDA r :
        [r EXCEPT !.out = header \o @]))

\* ------------------------------------------------------------------------
\* Documents handed to the compilers
\* ------------------------------------------------------------------------

\* Number of elements of a generated document, and of entries a HashMap
\* iteration order is drawn for.
MaxElems == 3
MaxNotes == 3

Text(t) == [kind |-> "Text", text |-> t]
Url(u) == [kind |-> "Url", text |-> u]
Image(alt, u) == [kind |-> "Image", alt |-> alt, url |-> u]
InlineFootnote(content) == [kind |-> "InlineFootnote", text |-> content]
Footnote(name) == [kind |-> "Footnote", text |-> name]
Message(level, msg_type, body) ==
    [kind |-> "Message", level |-> level, msg_type |-> msg_type, body |-> body]
Details(level, title, body) ==
    [kind |-> "Details", level |-> level, title |-> title, body |-> body]
Macro(zenn, qiita) == [kind |-> "Macro", zenn |-> zenn, qiita |-> qiita]
LinkCard(card_type, u) == [kind |-> "LinkCard", card_type |-> card_type, url |-> u]

\* the variants of Element
ElementKinds ==
    {"Text", "Url", "Macro", "LinkCard", "Image", "InlineFootnote", "Footnote",
     "Message", "Details"}

\* the variants the match of QiitaCompiler::compile_element has an arm for,
\* and those the match of ZennCompiler::compile_element has an arm for
QiitaArms ==
    {"Text", "Url", "Macro", "Image", "InlineFootnote", "Footnote", "Message", "Details"}
ZennArms ==
    {"Text", "Url", "Macro", "Image", "InlineFootnote", "Footnote", "Message", "Details"}

\* some element the compiler of a platform is given, at the top or within a
\* block or the platform's content of a macro, is of a variant its match has
\* no arm for
RECURSIVE Unmatched(_, _, _)
Unmatched(elements, arms, platform) ==
    \E k \in 1..Len(elements) :
        \/ elements[k].kind \notin arms
        \/ /\ elements[k].kind \in {"Message", "Details"}
           /\ Unmatched(elements[k].body, arms, platform)
        \/ /\ elements[k].kind = "Macro"
           /\ Unmatched(IF platform = "zenn" THEN elements[k].zenn ELSE elements[k].qiita,
                        arms, platform)

LocalImage == Image(<<"a">>, <<"/", "i", "m", "a", "g", "e", "s", "/", "p", ".", "p", "n", "g">>)
RemoteImage == Image(<<"a">>, <<"h", "t", "t", "p", ":", "/", "/", "h", "/", "p", ".", "p", "n", "g">>)

CompileAtoms ==
    {Text(<<"x">>), Url(<<"h", "t", "t", "p", ":", "/", "/", "x">>), LocalImage, RemoteImage, InlineFootnote(<<"n">>),
     InlineFootnote(<<"m">>), Footnote(ZETA_INLINE \o <<"1">>), Footnote(<<"f">>)}

BlockBodies ==
    {<<>>, <<Text(<<"H", "e", "l", "l", "o", NL>>)>>, <<Text(<<"b">>), InlineFootnote(<<"n">>)>>,
     <<InlineFootnote(<<"n">>), InlineFootnote(<<"m">>)>>, <<LocalImage>>,
     <<Footnote(<<"f">>), Text(<<NL>>)>>}

MessageTypes == {"Info", "Warn", "Alert"}

CompileBlocks ==
    {Message(level, t, body) : level \in 0..1, t \in MessageTypes, body \in BlockBodies}
    \cup {Details(level, <<"t">>, body) : level \in 0..1, body \in BlockBodies}

\* a block of level 0 inside a block of level 1
NestedBlocks ==
    {Message(1, "Info", <<Text(<<"o", NL>>), inner>>) : inner \in
        {Message(0, "Warn", <<Text(<<"i", NL>>)>>), Details(0, <<"t">>, <<Text(<<"i", NL>>)>>)}}
    \cup {Details(1, <<"t">>, <<inner, Text(<<NL>>)>>) : inner \in
        {Message(0, "Alert", <<Text(<<"i", NL>>), InlineFootnote(<<"n">>)>>),
         Details(0, <<"u">>, <<Text(<<"i", NL>>)>>)}}

\* the contents a macro gives one platform
MacroBodies ==
    {<<>>, <<Text(<<"A">>)>>, <<Text(<<"B">>)>>, <<InlineFootnote(<<"k">>)>>,
     <<Text(<<"A">>), Footnote(<<"f">>)>>, <<LocalImage>>}

CompileMacros == {Macro(zenn, qiita) : zenn, qiita \in MacroBodies}

CompileElements ==
    SeqsUpTo(CompileAtoms, MaxElems)
    \cup {before \o <<e>> \o after :
            before \in {<<>>, <<InlineFootnote(<<"n">>)>>},
            e \in CompileBlocks \cup NestedBlocks \cup CompileMacros,
            after \in {<<>>, <<InlineFootnote(<<"m">>)>>, <<Text(<<"x">>)>>}}

ZetaFrontmatter(topics, published, only) ==
    [title |-> <<"t">>, emoji |-> <<"e">>, type |-> <<"t", "e", "c", "h">>, topics |-> topics,
     published |-> published, only |-> only]

Frontmatters ==
    {ZetaFrontmatter(SubSeq(TopicNames, 1, n), published, only) :
        n \in 0..2, published \in BOOLEAN,
        only \in {<<>>, <<"Zenn">>, <<"Qiita">>}}

\* the frontmatter of the file public/<target>.md of an earlier build
ExistingFrontmatters ==
    {[title |-> <<"o", "l", "d">>, tags |-> <<>>, private |-> private,
      updated_at |-> updated_at, id |-> id, organization_url_name |-> id,
      slide |-> private, ignorePublish |-> FALSE] :
        private \in BOOLEAN, updated_at \in {<<>>, <<"2", "0", "2", "4", "-", "0", "1", "-", "0", "1">>},
        id \in {<<>>, <<<<"a", "b", "c">>>>}}

\* documents with a link card: alone, after a text, in a block
CardElements ==
    {<<LinkCard(<<"c">>, <<"u">>)>>,
     <<Text(<<"x">>), LinkCard(<<"c">>, <<"u">>), Text(<<"y">>)>>,
     <<Message(0, "Info", <<LinkCard(<<"c">>, <<"u">>)>>)>>}

\* the document and the frontmatter of the public file, if there is one
CompileInputs ==
    {[md |-> [frontmatter |-> ZetaFrontmatter(<<<<"a">>>>, TRUE, <<>>), elements |-> es],
      existing |-> <<>>] : es \in CompileElements}
    \cup {[md |-> [frontmatter |-> fm, elements |-> es], existing |-> ex] :
            fm \in Frontmatters,
            es \in {<<Text(<<"x">>)>>, <<InlineFootnote(<<"n">>)>>},
            ex \in {<<>>} \cup {<<e>> : e \in ExistingFrontmatters}}
    \cup {[md |-> [frontmatter |-> ZetaFrontmatter(<<<<"a">>>>, TRUE, only), elements |-> es],
           existing |-> <<>>] :
            only \in {<<>>, <<"Zenn">>, <<"Qiita">>},
            es \in CardElements}

\* how many local images, and how many inline footnotes, the Qiita compiler
\* meets in the elements
RECURSIVE local_images(_)
local_images(elements) ==
    IF elements = <<>> THEN 0
    ELSE local_images(Tail(elements))
         + (IF Head(elements).kind = "Image"
            THEN (IF starts_with(Head(elements).url, LOCAL_IMAGES) THEN 1 ELSE 0)
            ELSE IF Head(elements).kind \in {"Message", "Details"}
            THEN local_images(Head(elements).body)
            ELSE IF Head(elements).kind = "Macro" THEN local_images(Head(elements).qiita)
            ELSE 0)

RECURSIVE inline_footnotes_in(_)
inline_footnotes_in(elements) ==
    IF elements = <<>> THEN 0
    ELSE inline_footnotes_in(Tail(elements))
         + (IF Head(elements).kind = "InlineFootnote" THEN 1
            ELSE IF Head(elements).kind \in {"Message", "Details"}
            THEN inline_footnotes_in(Head(elements).body)
            ELSE IF Head(elements).kind = "Macro"
            THEN inline_footnotes_in(Head(elements).qiita)
            ELSE 0)

\* the orders in which n entries can be visited
Orders(n) == {ord \in [1..n -> 1..n] : \A i, j \in 1..n : ord[i] = ord[j] => i = j}

\* the orders that tell the compiles of the elements apart: those of as
\* many entries as there are inline footnotes, and of MaxNotes at most
OrdersFor(elements) ==
    Orders(IF inline_footnotes_in(elements) < MaxNotes
           THEN inline_footnotes_in(elements) ELSE MaxNotes)

\* the environment matters to a compile that resolves a local image
EnvsFor(elements) == IF local_images(elements) > 0 THEN Envs ELSE {EnvResolved}

\* ------------------------------------------------------------------------
\* The build as a state machine: main.rs build, compile_zenn, compile_qiita
\* ------------------------------------------------------------------------

NotWritten == <<<<>>, <<>>>>

NoDocument == [frontmatter |-> ZetaFrontmatter(<<>>, FALSE, <<>>), elements |-> <<>>]

CompileInit ==
    /\ \E input \in CompileInputs : md = input.md /\ existing = input.existing
    /\ build_no = 1
    /\ cpc = "build"
    /\ compiler = QiitaCompiler_new(<<>>)
    /\ hash_order = <<>>
    /\ next_element = 1
    /\ qiita_md = <<>>
    /\ world = <<>>
    /\ articles = NotWritten
    /\ public = NotWritten

\* a build that compiles for Zenn whatever `only` says
Build_always_zenn ==
    /\ cpc = "build"
    /\ cpc' = "zenn"
    /\ UNCHANGED <<md, existing, build_no, compiler, hash_order, next_element, qiita_md,
                   world, articles, public>>
    /\ UNCHANGED <<scan_vars, parse_vars>>

\* build, after the parse: which compile comes first
Build ==
    /\ cpc = "build"
    /\ cpc' = IF md.frontmatter.only = <<"Qiita">> THEN "qiita" ELSE "zenn"
    /\ UNCHANGED <<md, existing, build_no, compiler, hash_order, next_element, qiita_md,
                   world, articles, public>>
    /\ UNCHANGED <<scan_vars, parse_vars>>

\* compile_zenn
CompileZenn ==
    /\ cpc = "zenn"
    /\ ~Unmatched(md.elements, ZennArms, "zenn")
    /\ articles' = [articles EXCEPT ![build_no] = <<Zenn_compile(md)>>]
    /\ cpc' = IF md.frontmatter.only = <<>> THEN "qiita" ELSE "built"
    /\ UNCHANGED <<md, existing, build_no, compiler, hash_order, next_element, qiita_md,
                   world, public>>
    /\ UNCHANGED <<scan_vars, parse_vars>>

\* compile_qiita up to the end of compile_frontmatter
CompileQiita ==
    /\ cpc = "qiita"
    /\ compiler' = QiitaCompiler_new(existing)
    /\ hash_order' \in OrdersFor(md.elements)
    /\ qiita_md' = Qiita_compile_frontmatter(QiitaCompiler_new(existing), md.frontmatter)
    /\ next_element' = 1
    /\ cpc' = "elements"
    /\ UNCHANGED <<md, existing, build_no, world, articles, public>>
    /\ UNCHANGED <<scan_vars, parse_vars>>

\* what one element leaves behind
ElementCompiled(r, env, resolved) ==
    /\ cpc' = IF r.panic THEN "panic" ELSE "elements"
    /\ compiler' = r.c
    /\ qiita_md' = r.out
    /\ next_element' = next_element + 1
    /\ world' = IF resolved THEN <<env>> ELSE world

\* compile_elements: compile_element for the next element of the document
QiitaElement ==
    /\ cpc = "elements"
    /\ next_element <= Len(md.elements)
    /\ ~Unmatched(<<md.elements[next_element]>>, QiitaArms, "qiita")
    /\ \E env \in EnvsFor(<<md.elements[next_element]>>) :
          ElementCompiled(
              Qiita_step([c |-> compiler, out |-> qiita_md], md.elements[next_element],
                         env, hash_order),
              env, local_images(<<md.elements[next_element]>>) > 0)
    /\ UNCHANGED <<md, existing, build_no, hash_order, articles, public>>
    /\ UNCHANGED <<scan_vars, parse_vars>>

\* compile_elements after the last element: the footnote definitions, and
\* compile_qiita's write of the file
QiitaWrite ==
    /\ cpc = "elements"
    /\ next_element > Len(md.elements)
    /\ qiita_md' = qiita_md \o footnote_definitions(
                                   iteration_order(compiler.inline_footnotes, hash_order))
    /\ public' = [public EXCEPT ![build_no] = <<qiita_md'>>]
    /\ cpc' = "built"
    /\ UNCHANGED <<md, existing, build_no, compiler, hash_order, next_element, world,
                   articles>>
    /\ UNCHANGED <<scan_vars, parse_vars>>

\* the same document built once more, from the same public file
Rebuild ==
    /\ cpc = "built"
    /\ build_no = 1
    /\ build_no' = 2
    /\ cpc' = "build"
    /\ UNCHANGED <<md, existing, compiler, hash_order, next_element, qiita_md, world,
                   articles, public>>
    /\ UNCHANGED <<scan_vars, parse_vars>>

\* compile_element given an element of a variant its match has no arm for.
\* rustc rejects such a match (E0004): there is no rendering of the element,
\* and the compile of the document goes no further.
NoArm ==
    /\ \/ cpc = "zenn" /\ Unmatched(md.elements, ZennArms, "zenn")
       \/ /\ cpc = "elements"
          /\ next_element <= Len(md.elements)
          /\ Unmatched(<<md.elements[next_element]>>, QiitaArms, "qiita")
    /\ cpc' = "no_arm"
    /\ UNCHANGED <<md, existing, build_no, compiler, hash_order, next_element, qiita_md,
                   world, articles, public>>
    /\ UNCHANGED <<scan_vars, parse_vars>>

CompileNext ==
    Build \/ CompileZenn \/ CompileQiita \/ QiitaElement \/ QiitaWrite \/ Rebuild \/ NoArm

\* ------------------------------------------------------------------------
\* Properties of the compilers
\* ------------------------------------------------------------------------

\* the text of a file a build wrote
Written(output) == output[build_no][1]

\* the build has written the files of every platform it compiles for
Built == cpc = "built"

\* the frontmatter each compiler puts before the body
ZennHeader == Zenn_compile_header(md.frontmatter)
QiitaHeader == Qiita_compile_frontmatter(QiitaCompiler_new(existing), md.frontmatter)

\* the environment this build's image resolution met, if it resolved any
WorldMet == IF world = <<>> THEN EnvResolved ELSE world[1]

\* the text a list of elements renders to as the body of a block, on Qiita
QiitaBody(body) ==
    Qiita_compile_elements(QiitaCompiler_new(<<>>), body, WorldMet, hash_order).out

Contains(str, part) == FindFrom(str, part, 1) # 0 \/ part = <<>>

\* C6: a Message of level 0 and type Alert whose body renders to B is
\* rendered `:::note alert`, newline, B, `:::` by the Qiita compiler and
\* `:::message alert`, newline, B, `:::` by the Zenn compiler, whatever the
\* body; a body of the one text "Hello\n" gives the two blocks of the spec.
C6_AlertMessage ==
    \A body \in BlockBodies :
        (Built /\ md.elements = <<Message(0, "Alert", body)>>) =>
            /\ Written(public) = QiitaHeader \o <<":", ":", ":", "n", "o", "t", "e", " ", "a", "l", "e", "r", "t", NL>> \o QiitaBody(body) \o <<":", ":", ":">>
            /\ Written(articles) = ZennHeader \o <<":", ":", ":", "m", "e", "s", "s", "a", "g", "e", " ", "a", "l", "e", "r", "t", NL>>
                                   \o Zenn_compile_elements(body) \o <<":", ":", ":">>
            /\ body = <<Text(<<"H", "e", "l", "l", "o", NL>>)>> =>
                  /\ Written(public) = QiitaHeader \o <<":", ":", ":", "n", "o", "t", "e", " ", "a", "l", "e", "r", "t", NL, "H", "e", "l", "l", "o", NL, ":", ":", ":">>
                  /\ Written(articles) = ZennHeader \o <<":", ":", ":", "m", "e", "s", "s", "a", "g", "e", " ", "a", "l", "e", "r", "t", NL, "H", "e", "l", "l", "o", NL, ":", ":", ":">>

C6_Witness ==
    /\ Built
    /\ md.elements = <<Message(0, "Alert", <<Text(<<"b">>), InlineFootnote(<<"n">>)>>)>>
    /\ Written(public) = QiitaHeader
          \o <<":", ":", ":", "n", "o", "t", "e", " ", "a", "l", "e", "r", "t", NL, "b", "[", "^", "z", "e", "t", "a", ".", "i", "n", "l", "i", "n", "e", ".", "1", "]", NL, "[", "^", "z", "e", "t", "a", ".", "i", "n", "l", "i", "n", "e", ".", "1", "]", ":", " ", "n", NL, ":", ":", ":">>
    /\ Written(articles) = ZennHeader \o <<":", ":", ":", "m", "e", "s", "s", "a", "g", "e", " ", "a", "l", "e", "r", "t", NL, "b", "^", "[", "n", "]", ":", ":", ":">>

\* the macro bodies that are plain text
PlainText(body) == \A k \in 1..Len(body) : body[k].kind = "Text"

\* C7: for a macro with zenn content A and qiita content B the Zenn output
\* holds the rendering of A, the Qiita output holds the rendering of B, and
\* neither output changes when the content of the other platform is
\* replaced by any other content: nothing in it derives from that content.
C7_MacroPlatforms ==
    \A A \in MacroBodies, B \in MacroBodies :
        (Built /\ md.elements = <<Macro(A, B)>>) =>
            /\ Contains(Written(articles), Zenn_compile_elements(A))
            /\ Contains(Written(public), QiitaBody(B))
            /\ PlainText(A) => Written(articles) = ZennHeader \o Flatten([k \in 1..Len(A) |-> A[k].text])
            /\ PlainText(B) => Written(public) = QiitaHeader \o Flatten([k \in 1..Len(B) |-> B[k].text])
            /\ \A other \in MacroBodies :
                  /\ Zenn_compile([md EXCEPT !.elements = <<Macro(A, other)>>])
                     = Written(articles)
                  /\ Qiita_compile(QiitaCompiler_new(existing),
                                   [md EXCEPT !.elements = <<Macro(other, B)>>],
                                   WorldMet, hash_order).out
                     = Written(public)

C7_Witness ==
    /\ Built
    /\ md.elements = <<Macro(<<Text(<<"A">>)>>, <<Text(<<"B">>)>>)>>
    /\ Written(articles) = ZennHeader \o <<"A">>
    /\ Written(public) = QiitaHeader \o <<"B">>

\* C8: the inline footnotes the Qiita compiler renders in one scope are
\* named zeta.inline.1, zeta.inline.2, ... in order, pairwise distinct, and
\* none of these names is the name of a manual footnote rendered in the
\* same scope, even when a manual footnote is named zeta.inline.1.
C8_InlineNames ==
    cpc \in {"elements", "built"} =>
        /\ \A i \in 1..Len(compiler.inline_footnotes) :
              compiler.inline_footnotes[i].name = ZETA_INLINE \o to_string(i)
        /\ \A i, j \in 1..Len(compiler.inline_footnotes) :
              compiler.inline_footnotes[i].name = compiler.inline_footnotes[j].name => i = j
        /\ \A i \in 1..Len(compiler.inline_footnotes) :
              compiler.inline_footnotes[i].name \notin compiler.footnotes

\* C9: the same document compiled twice by the same backend with the same
\* public file gives the same bytes; in particular the Qiita compiler emits
\* the definitions of several inline footnotes in the same order each time.
\* (Documents with local images are left aside: their rendering depends on
\* what the environment answers at each build.)
C9_SameOutput ==
    (Built /\ build_no = 2 /\ local_images(md.elements) = 0) =>
        /\ articles[1] = articles[2]
        /\ public[1] = public[2]

\* the ways C10 lists in which the resolution of a local image can fail
ResolutionFailures == {EnvUnreadable, EnvUnparsable, EnvNoGit, EnvGitFails, EnvNoBranch}

\* C10: rendering a local image on the Qiita backend always completes: when
\* the settings file cannot be read or parsed, git cannot be started,
\* `git remote show origin` fails or no default branch is found, the image
\* is rendered with its path unchanged and the compile does not abort.
C10_ImageFallback ==
    (world # <<>> /\ world[1] \in ResolutionFailures) =>
        /\ cpc # "panic"
        /\ (Built /\ md.elements = <<LocalImage>>) =>
              Written(public) = QiitaHeader \o <<"!", "[", "a", "]", "(", "/", "i", "m", "a", "g", "e", "s", "/", "p", ".", "p", "n", "g", ")">>

\* the lines of the file the Qiita compile of this build wrote
PublicLines == SplitLines(Written(public))

HasLine(lines, line) == \E k \in 1..Len(lines) : lines[k] = line

\* a field of a frontmatter, as the line `key: value` among its lines
FieldIn(lines, key, value) == HasLine(lines, key \o <<":", " ">> \o value)

\* a field of the written frontmatter
HasField(key, value) == FieldIn(PublicLines, key, value)

BoolText(b) == IF b THEN <<"t", "r", "u", "e">> ELSE <<"f", "a", "l", "s", "e">>

\* an optional string as the file shows it
OptionText(o) == IF o = <<>> THEN <<"n", "u", "l", "l">> ELSE o[1]

\* the tags of a frontmatter are the topics, in order
TagsIn(lines, topics) ==
    IF topics = <<>> THEN HasLine(lines, <<"t", "a", "g", "s", ":", " ", "[", "]">>)
    ELSE \E k \in 1..Len(lines) :
            /\ lines[k] = <<"t", "a", "g", "s", ":">>
            /\ \A i \in 1..Len(topics) : lines[k + i] = <<"-", " ">> \o topics[i]
            /\ lines[k + Len(topics) + 1] = <<"p", "r", "i", "v", "a", "t", "e", ":", " ">> \o
                  BoolText(IF existing = <<>> THEN FALSE ELSE existing[1].private)

\* C11: the frontmatter of the Qiita output has title = title, tags =
\* topics and ignorePublish = not published; private, id,
\* organization_url_name, slide and updated_at are those of the frontmatter
\* of the earlier build when there is one, and private = false, no id and
\* slide = false when there is none.
C11_QiitaFrontmatter ==
    (Built /\ public[build_no] # <<>>) =>
      Bind(PublicLines, LAMBDA lines :
        /\ FieldIn(lines, <<"t", "i", "t", "l", "e">>, md.frontmatter.title)
        /\ TagsIn(lines, md.frontmatter.topics)
        /\ FieldIn(lines, <<"i", "g", "n", "o", "r", "e", "P", "u", "b", "l", "i", "s", "h">>, BoolText(~md.frontmatter.published))
        /\ existing # <<>> =>
              /\ FieldIn(lines, <<"p", "r", "i", "v", "a", "t", "e">>, BoolText(existing[1].private))
              /\ FieldIn(lines, <<"i", "d">>, OptionText(existing[1].id))
              /\ FieldIn(lines, <<"o", "r", "g", "a", "n", "i", "z", "a", "t", "i", "o", "n", "_", "u", "r", "l", "_", "n", "a", "m", "e">>,
                          OptionText(existing[1].organization_url_name))
              /\ FieldIn(lines, <<"s", "l", "i", "d", "e">>, BoolText(existing[1].slide))
              /\ FieldIn(lines, <<"u", "p", "d", "a", "t", "e", "d", "_", "a", "t">>, QUOTE \o existing[1].updated_at \o QUOTE)
        /\ existing = <<>> =>
              /\ FieldIn(lines, <<"p", "r", "i", "v", "a", "t", "e">>, <<"f", "a", "l", "s", "e">>)
              /\ FieldIn(lines, <<"i", "d">>, <<"n", "u", "l", "l">>)
              /\ FieldIn(lines, <<"s", "l", "i", "d", "e">>, <<"f", "a", "l", "s", "e">>))

C11_Witness ==
    /\ Built
    /\ public[build_no] # <<>>
    /\ existing # <<>>
    /\ ~md.frontmatter.published
    /\ Len(md.frontmatter.topics) = 2
    /\ HasField(<<"p", "r", "i", "v", "a", "t", "e">>, <<"t", "r", "u", "e">>)
    /\ HasField(<<"i", "d">>, <<"a", "b", "c">>)
    /\ HasField(<<"u", "p", "d", "a", "t", "e", "d", "_", "a", "t">>, <<"'", "2", "0", "2", "4", "-", "0", "1", "-", "0", "1", "'">>)
    /\ HasField(<<"i", "g", "n", "o", "r", "e", "P", "u", "b", "l", "i", "s", "h">>, <<"t", "r", "u", "e">>)

\* C12: a build writes the Zenn output exactly when `only` is absent or
\* Zenn and the Qiita output exactly when `only` is absent or Qiita; the
\* output of the platform `only` excludes is never written.
C12_OnlyPlatform ==
    /\ Built =>
          /\ articles[build_no] # <<>> <=> md.frontmatter.only \in {<<>>, <<"Zenn">>}
          /\ public[build_no] # <<>> <=> md.frontmatter.only \in {<<>>, <<"Qiita">>}
    /\ md.frontmatter.only = <<"Zenn">> => public = NotWritten /\ cpc \notin {"qiita", "elements"}
    /\ md.frontmatter.only = <<"Qiita">> => articles = NotWritten /\ cpc # "zenn"

C12_Witness ==
    /\ Built
    /\ build_no = 2
    /\ md.frontmatter.only = <<"Qiita">>
    /\ articles = NotWritten
    /\ public[1] # <<>>
    /\ public[2] # <<>>

\* how many colons a text begins with, and how many it ends with
RECURSIVE LeadingColons(_)
LeadingColons(str) ==
    IF str = <<>> \/ Head(str) # ":" THEN 0 ELSE 1 + LeadingColons(Tail(str))

RECURSIVE TrailingColons(_)
TrailingColons(str) ==
    IF str = <<>> \/ str[Len(str)] # ":" THEN 0
    ELSE 1 + TrailingColons(SubSeq(str, 1, Len(str) - 1))

\* the body of the Zenn file this build wrote, after its frontmatter
ZennBodyText == SubSeq(Written(articles), Len(ZennHeader) + 1, Len(Written(articles)))

\* the opening fences of a Zenn text, outermost first: the lines that begin
\* with colons and go on with a tag
OpeningFences(str) ==
    SelectSeq(SplitLines(str), LAMBDA l : 0 < LeadingColons(l) /\ LeadingColons(l) < Len(l))

\* a document of one block has been compiled for Zenn
ZennBlockBuilt(blocks) ==
    /\ Built
    /\ articles[build_no] # <<>>
    /\ Len(md.elements) = 1
    /\ md.elements[1] \in blocks

\* the colon count of the fences is fixed by the level: 3 + level colons
\* open the block and as many close it
FenceFixedByLevel ==
    ZennBlockBuilt(CompileBlocks \cup NestedBlocks) =>
        /\ LeadingColons(ZennBodyText) = 3 + md.elements[1].level
        /\ TrailingColons(ZennBodyText) >= 3 + md.elements[1].level
        /\ md.elements[1] \in CompileBlocks =>
              TrailingColons(ZennBodyText) = 3 + md.elements[1].level

\* C13 as stated: on the Zenn backend the colon count of a block's fences is
\* fixed by its level, and in a validly nested pair (inner level below the
\* outer level) the fence of the outer block has fewer colons than the
\* fence of the inner block.
C13_OuterFewerColons ==
    /\ FenceFixedByLevel
    /\ ZennBlockBuilt(NestedBlocks) =>
          LeadingColons(OpeningFences(ZennBodyText)[1])
              < LeadingColons(OpeningFences(ZennBodyText)[2])

\* C13 amended: the colon count of a block's fences is fixed by its level,
\* 3 + level, and in a validly nested pair the fence of the outer block has
\* more colons than the fence of the inner block, so the two fences differ.
C13_OuterMoreColons ==
    /\ FenceFixedByLevel
    /\ ZennBlockBuilt(NestedBlocks) =>
          /\ Len(OpeningFences(ZennBodyText)) = 2
          /\ LeadingColons(OpeningFences(ZennBodyText)[1])
                > LeadingColons(OpeningFences(ZennBodyText)[2])

C13_Witness ==
    /\ ZennBlockBuilt(NestedBlocks)
    /\ md.elements[1].kind = "Details"
    /\ md.elements[1].level = 1
    /\ md.elements[1].body[1].level = 0
    /\ LeadingColons(OpeningFences(ZennBodyText)[1]) = 4
    /\ LeadingColons(OpeningFences(ZennBodyText)[2]) = 3

\* ------------------------------------------------------------------------
\* Properties of the scanner: footnotes, code spans, fences, macros
\* ------------------------------------------------------------------------

\* the tokens of one type, in order
TokensOf(tokens, type) == SelectSeq(tokens, LAMBDA t : t.type = type)

\* the Text output: the texts of the Text tokens, one after the other
RECURSIVE TextOutput(_)
TextOutput(tokens) ==
    IF tokens = <<>> THEN <<>>
    ELSE (IF Head(tokens).type = "Text" THEN Head(tokens).text ELSE <<>>)
            \o TextOutput(Tail(tokens))

\* a finished pass of scan_body over the text src
Scanned(src) == spc = "done" /\ entry = "scan_body" /\ scanner.source = src

\* C14: for a span [^id] after a plain text: when the character right after
\* the closing bracket is a colon the pass emits no Footnote token and the
\* characters of the span stay in the Text output, which then is the whole
\* source; otherwise the pass emits exactly one Footnote token, and its
\* text is id.
C14_FootnoteDefinition ==
    \A before \in PlainTexts, id \in FootnoteIds, after \in FootnoteTails :
        Scanned(before \o FN_OPEN \o id \o RBRACKET \o after) =>
            /\ scan_result.ok
            /\ IF IsPrefix(COLON, after)
               THEN /\ TokensOf(scan_result.tokens, "Footnote") = <<>>
                    /\ TextOutput(scan_result.tokens) = scanner.source
                    /\ Contains(TextOutput(scan_result.tokens), FN_OPEN \o id \o RBRACKET)
               ELSE /\ Len(TokensOf(scan_result.tokens, "Footnote")) = 1
                    /\ TokensOf(scan_result.tokens, "Footnote")[1].text = id
                    /\ TextOutput(scan_result.tokens) = before \o after

\* C14 witness: a definition `x[^id]: d` scanned to Text tokens alone
C14_Witness ==
    /\ Scanned(<<"x", "[", "^", "i", "d", "]", ":", " ", "d">>)
    /\ scan_result.ok
    /\ TokensOf(scan_result.tokens, "Footnote") = <<>>
    /\ Len(scan_result.tokens) = 2
    /\ scan_result.tokens[2].text = <<"[", "^", "i", "d", "]", ":", " ", "d">>

\* the tokens scan_body gives for a text scanned alone
TokensAlone(src) == scan_body(Scanner_new(src)).tokens

\* C15: for a terminated code span, inline or fenced, after a plain text:
\* the pass succeeds as it does on what follows the span; it emits no token
\* for anything inside the span, the tokens being as many as what follows
\* the span gives alone; the Text token around the span is not split, its
\* first Text token beginning with the text before the span and the whole
\* span; and the span with its delimiters is in the Text output character
\* for character.
C15_CodeSpanOpaque ==
    \A before \in PlainTexts, delim \in CodeDelims, after \in CodeTails :
        \A inner \in CodeInnersOf(delim) :
            Scanned(before \o delim \o inner \o delim \o after) =>
                /\ scan_result.ok
                /\ Len(scan_result.tokens) = Len(TokensAlone(after))
                /\ scan_result.tokens[1].type = "Text"
                /\ IsPrefix(before \o delim \o inner \o delim, scan_result.tokens[1].text)
                /\ TextOutput(scan_result.tokens)
                      = before \o delim \o inner \o delim \o TextOutput(TokensAlone(after))
                /\ \A i \in 2..Len(scan_result.tokens) :
                      scan_result.tokens[i].type = TokensAlone(after)[i].type

\* C15 witness: a fenced span holding a message block and an inline span
\* holding an image, each scanned to the one Text token of the whole source
C15_Witness ==
    /\ \/ Scanned(<<"x", " ">> \o FENCE \o <<NL, ":", ":", ":", "m", "e", "s", "s", "a", "g", "e", " ", "i", "n", "f", "o", NL, "x", NL, ":", ":", ":", NL>> \o FENCE \o <<" ", "y">>)
       \/ Scanned(<<"x", " ">> \o BACKTICK \o <<"!", "[", "a", "]", "(", "u", ")">> \o BACKTICK \o <<" ", "y">>)
    /\ scan_result.ok
    /\ Len(scan_result.tokens) = 1
    /\ scan_result.tokens[1].type = "Text"
    /\ scan_result.tokens[1].text = scanner.source

\* the block tokens of a pass, without their positions
BlockTypes == {"MessageBegin", "DetailsBegin", "MessageOrDetailsEnd"}
BlockTokens(tokens) ==
    [i \in 1..Len(SelectSeq(tokens, LAMBDA t : t.type \in BlockTypes)) |->
        Bind(SelectSeq(tokens, LAMBDA t : t.type \in BlockTypes)[i], LAMBDA t :
            IF t.type = "MessageOrDetailsEnd"
            THEN [type |-> t.type, level |-> t.level]
            ELSE [type |-> t.type, level |-> t.level, text |-> t.text])]

\* the block token the line `:::` + k colons + tag + rest stands for
FenceToken(k, tag, rest) ==
    IF tag = MESSAGE_TAG
    THEN [type |-> "MessageBegin", level |-> k, text |-> DropSpaces(rest)]
    ELSE IF tag = DETAILS_TAG
    THEN [type |-> "DetailsBegin", level |-> k, text |-> DropSpaces(rest)]
    ELSE [type |-> "MessageOrDetailsEnd", level |-> k]

\* C16 (the claim as stated): for a line that starts, directly after a
\* newline, with 3 + k colons, the pass emits exactly one block token, of
\* level k: MessageBegin with the type word when `message` follows the
\* colons, DetailsBegin with the rest of the line as title when `details`
\* follows, MessageOrDetailsEnd otherwise.
C16_FenceToken ==
    \A before \in {<<>>, <<"a">>}, k \in Levels, tag \in FenceTags,
       rest \in FenceRests, end \in FenceEnds :
        Scanned(before \o NEWLINE \o COLONS3 \o Repeat(COLON, k) \o tag \o rest \o end) =>
            /\ scan_result.ok
            /\ BlockTokens(scan_result.tokens) = <<FenceToken(k, tag, rest)>>

\* the same for the fence lines that a newline ends
C16_EndedFenceToken ==
    \A before \in {<<>>, <<"a">>}, k \in Levels, tag \in FenceTags,
       rest \in FenceRests, end \in FenceEnds \ {<<>>} :
        Scanned(before \o NEWLINE \o COLONS3 \o Repeat(COLON, k) \o tag \o rest \o end) =>
            /\ scan_result.ok
            /\ BlockTokens(scan_result.tokens) = <<FenceToken(k, tag, rest)>>

\* a macro that is the whole text, with its two platform entries
MacroOf(z, q) ==
    MACRO_OPEN \o ZENN_KEY \o <<" ">> \o z \o NEWLINE \o QIITA_KEY \o <<" ">> \o q
        \o MACRO_CLOSE

\* the mapping such a macro holds
MacroYaml(z, q) ==
    StringMacro_from_str(ZENN_KEY \o <<" ">> \o z \o NEWLINE \o QIITA_KEY \o <<" ">> \o q)

\* the errors of the nested scan of one platform entry of such a macro
NestedErrors(entry_text) ==
    scan_body(with_row_col(unwrap_or_default(entry_text), 1, Len(MACRO_OPEN) + 1)).errors

\* the errors of a list that are of one type, and those that are not
ErrorsOf(errors, error_type) == SelectSeq(errors, LAMBDA e : e.error_type = error_type)
ErrorsBut(errors, error_type) == SelectSeq(errors, LAMBDA e : e.error_type # error_type)

\* C20 (the claim as stated): when the nested scan of a platform entry of
\* a macro fails, the error list of the outer pass holds every scan error
\* of the zenn entry and of the qiita entry and exactly one InvalidMacro
\* error, placed at the start of the macro (row 1; the column of the
\* opening tag or of the text that follows it), and the pass emits no
\* Macro token for the macro.
C20_MacroErrorsMerged ==
    \A z \in MacroContents, q \in MacroContents :
        (/\ Scanned(MacroOf(z, q))
         /\ MacroYaml(z, q).ok
         /\ NestedErrors(MacroYaml(z, q).zenn) \o NestedErrors(MacroYaml(z, q).qiita) # <<>>)
        =>
            /\ ~scan_result.ok
            /\ ErrorsBut(scan_result.errors, "InvalidMacro")
                  = NestedErrors(MacroYaml(z, q).zenn) \o NestedErrors(MacroYaml(z, q).qiita)
            /\ Len(ErrorsOf(scan_result.errors, "InvalidMacro")) = 1
            /\ ErrorsOf(scan_result.errors, "InvalidMacro")[1].row = 1
            /\ ErrorsOf(scan_result.errors, "InvalidMacro")[1].col \in {1, Len(MACRO_OPEN) + 1}
            /\ TokensOf(scanner.tokens, "Macro") = <<>>

\* the same when one of the two entries alone fails its nested scan
C20_OneEntryFails ==
    \A z \in MacroContents, q \in MacroContents :
        (/\ Scanned(MacroOf(z, q))
         /\ MacroYaml(z, q).ok
         /\ (NestedErrors(MacroYaml(z, q).zenn) = <<>>) # (NestedErrors(MacroYaml(z, q).qiita) = <<>>))
        =>
            /\ ~scan_result.ok
            /\ ErrorsBut(scan_result.errors, "InvalidMacro")
                  = NestedErrors(MacroYaml(z, q).zenn) \o NestedErrors(MacroYaml(z, q).qiita)
            /\ Len(ErrorsOf(scan_result.errors, "InvalidMacro")) = 1
            /\ ErrorsOf(scan_result.errors, "InvalidMacro")[1].row = 1
            /\ ErrorsOf(scan_result.errors, "InvalidMacro")[1].col = Len(MACRO_OPEN) + 1
            /\ TokensOf(scanner.tokens, "Macro") = <<>>

\* the index in the file read of the character at index i of the text the
\* scanner holds once the newline went in at index at
IndexInFile(i, at) == IF i <= at THEN i ELSE i - 1

\* C21 (the claim as stated): in every state of the scan of a whole file
\* the row and the column of the scanner are the 1-based row and column, in
\* the text of the file, of the character at the cursor.
C21_PositionInFile ==
    (entry = "scan_file" /\ spc \in {"loop", "done"}
        /\ scanner.current <= Len(scanner.source)) =>
        \A original \in FileSources :
            scan_file_head(Scanner_new(original)).s.source = scanner.source =>
                PositionOf(original,
                           IndexInFile(scanner.current,
                                       scan_file_head(Scanner_new(original)).s.current))
                    = [row |-> scanner.row, col |-> scanner.col]

\* the same for scan_body, which scans the text it is given as it is
C21_PositionInBody ==
    (entry = "scan_body" /\ spc \in {"loop", "done"}
        /\ scanner.current <= Len(scanner.source)) =>
        PositionOf(scanner.source, scanner.current)
            = [row |-> scanner.row, col |-> scanner.col]

\* the scanner has returned, or has panicked
ScanEnded == spc \in {"done", "panic"}

\* the step of the loop of scan_body that is next moves the cursor forward
\* and not beyond one past the end of the text
StepAdvances ==
    (spc = "loop" /\ ~is_at_end(scanner)) =>
        /\ scan_turn(scanner).current > scanner.current
        /\ scan_turn(scanner).current <= Len(scanner.source) + 1
        /\ scan_turn(scanner).source = scanner.source

\* what the scanner returns is the token list or the error list
ReturnsTokensOrErrors ==
    spc = "done" =>
        /\ scan_result.ok => scan_result.errors = <<>> /\ scanner.errors = <<>>
        /\ ~scan_result.ok =>
              /\ scan_result.tokens = <<>>
              /\ scan_result.errors # <<>>
              /\ scan_result.errors = scanner.errors

BadHead == Fenced(<<"t", "i", "t", "l", "e", " ", "t", NL>>)

\* a body with a structural error, a message block that is never closed,
\* and a body with none
BrokenBody == <<NL, ":", ":", ":", "m", "e", "s", "s", "a", "g", "e", " ", "i", "n", "f", "o", NL, "x">>
BodiesAfterBadHead == {BrokenBody, <<"a">>, <<>>}

\* the errors the parser reports for a body parsed alone
ErrorsAlone(body) == parse(Parser_new(body)).errors

\* C17 (the claim as stated): when the frontmatter block does not
\* deserialize, parse_file fails with an error list that holds
\* InvalidFrontMatter and, with it, every structural error of the body.
C17_BodyStillParsed ==
    \A b \in BodiesAfterBadHead :
        (Parsed /\ file = BadHead \o b) =>
            /\ ppc = "done"
            /\ ~parse_result.ok
            /\ HasError("InvalidFrontMatter")
            /\ \A k \in 1..Len(ErrorsAlone(b)) : HasError(ErrorsAlone(b)[k].error_type)
            /\ Len(parse_result.errors) = 1 + Len(ErrorsAlone(b))

\* C18 (the claim as stated): a Message or Details block that is opened
\* and that no fence of its level closes before the text ends makes the
\* parse fail with CouldNotFindEndToken, and no document is returned.
C18_UnclosedBlock ==
    \A b \in UnclosedBodies :
        (Parsed /\ file = GoodHead \o b) =>
            /\ ppc = "done"
            /\ ~parse_result.ok
            /\ parse_result.elements = <<>>
            /\ HasError("CouldNotFindEndToken")

\* C19 (the claim as stated): a message block whose type word is none of
\* info, warn, alert makes the parse fail with InvalidMessageType: the
\* result is an error, and no Message element is built with another type
\* in the place of the word.
C19_InvalidMessageType ==
    \A T \in InvalidTypeWords :
        (Parsed /\ file = GoodHead \o MessageBlock(T, <<"x">>)) =>
            /\ ppc = "done"
            /\ ~parse_result.ok
            /\ HasError("InvalidMessageType")
            /\ \A k \in 1..Len(parse_result.elements) :
                  parse_result.elements[k].kind # "Message"

\* ------------------------------------------------------------------------
\* Properties of the compilers: footnote definitions, blocks, element kinds
\* ------------------------------------------------------------------------

\* this build wrote a Qiita file
QiitaBuilt == Built /\ public[build_no] # <<>>

\* the body of the Qiita file this build wrote, after its frontmatter
QiitaBodyText == SubSeq(Written(public), Len(QiitaHeader) + 1, Len(Written(public)))

\* how many times a text occurs in another
CountOf(str, part) ==
    Cardinality({k \in 1..(Len(str) - Len(part) + 1) : OccursAt(str, part, k)})

\* the kinds of the elements of a list
KindsOf(elements) == {elements[k].kind : k \in 1..Len(elements)}

\* the definitions of the inline footnotes the compiler collected, as the
\* end of compile_elements writes them
CollectedDefinitions ==
    footnote_definitions(iteration_order(compiler.inline_footnotes, hash_order))

\* in the Qiita body the definition of each collected inline footnote is
\* there once, and the definitions are the end of the body
DefinitionsOnceAtEnd ==
    /\ \A i \in 1..Len(compiler.inline_footnotes) :
          CountOf(QiitaBodyText, footnote_definitions(<<compiler.inline_footnotes[i]>>)) = 1
    /\ Len(CollectedDefinitions) <= Len(QiitaBodyText)
    /\ SubSeq(QiitaBodyText, Len(QiitaBodyText) - Len(CollectedDefinitions) + 1,
              Len(QiitaBodyText)) = CollectedDefinitions

\* C23 (the claim as stated): in the Qiita output of a document of texts,
\* urls, images, footnotes and macros, the definition of each collected
\* inline footnote appears exactly once and after all rendered body text,
\* the documents with a Macro after an inline footnote included.
C23_DefinitionsOnceAtEnd ==
    (QiitaBuilt /\ KindsOf(md.elements) \cap {"Message", "Details"} = {}) =>
        DefinitionsOnceAtEnd

\* the same for the documents that hold no macro
C23_WithoutMacro ==
    (QiitaBuilt /\ KindsOf(md.elements) \cap {"Message", "Details", "Macro"} = {}) =>
        DefinitionsOnceAtEnd

\* the element compile_element is given next is a Message or a Details
BlockIsNext ==
    /\ cpc = "elements"
    /\ next_element <= Len(md.elements)
    /\ md.elements[next_element].kind \in {"Message", "Details"}

\* the contents of the inline footnotes that are elements of a body
InlineContents(body) ==
    [k \in 1..Len(SelectSeq(body, LAMBDA e : e.kind = "InlineFootnote")) |->
        SelectSeq(body, LAMBDA e : e.kind = "InlineFootnote")[k].text]

\* what the block is closed with
BlockClosing(element) ==
    IF element.kind = "Message" THEN COLONS3 ELSE <<"<", "/", "d", "e", "t", "a", "i", "l", "s", ">", NL>>

\* the text a step of the Qiita compile put after the text it had
Rendered(before, after) == SubSeq(after, Len(before) + 1, Len(after))

\* the inline footnotes of a body are numbered from 1 in the text of the
\* block, and each has its definition before the closing of the block
NumberedInside(element, text) ==
    /\ Len(BlockClosing(element)) <= Len(text)
    /\ SubSeq(text, Len(text) - Len(BlockClosing(element)) + 1, Len(text))
          = BlockClosing(element)
    /\ \A k \in 1..Len(InlineContents(element.body)) :
          /\ Contains(text, <<"[", "^">> \o ZETA_INLINE \o to_string(k) \o <<"]">>)
          /\ Contains(SubSeq(text, 1, Len(text) - Len(BlockClosing(element))),
                      footnote_definitions(<<[name |-> ZETA_INLINE \o to_string(k),
                                              content |-> InlineContents(element.body)[k]]>>))

\* C24: when the Qiita compiler renders a Message or a Details, the inline
\* footnotes of its body are numbered from 1, whatever the compiler of the
\* enclosing elements has collected, their definitions are written inside
\* the rendered block, and the footnotes set and the inline_footnotes map
\* of the enclosing compiler are after the block what they were before.
C24_BlockScope ==
    [][BlockIsNext =>
          /\ compiler' = compiler
          /\ cpc' = "elements" =>
                NumberedInside(md.elements[next_element], Rendered(qiita_md, qiita_md'))]_vars

\* C24 witness: after one inline footnote of the document, a message block
\* with two of its own has been rendered: the block numbers them 1 and 2
\* (the name zeta.inline.1 is there three times: the reference of the
\* document, the reference of the block and the definition in the block),
\* and the compiler of the document still holds its one entry
C24_Witness ==
    /\ cpc = "elements"
    /\ next_element = 3
    /\ md.elements[1] = InlineFootnote(<<"n">>)
    /\ md.elements[2] = Message(0, "Info", <<InlineFootnote(<<"n">>), InlineFootnote(<<"m">>)>>)
    /\ compiler.inline_footnotes = <<[name |-> ZETA_INLINE \o <<"1">>, content |-> <<"n">>]>>
    /\ CountOf(qiita_md, <<"[", "^">> \o ZETA_INLINE \o <<"1">> \o <<"]">>) = 3
    /\ Contains(qiita_md, <<NL, "[", "^", "z", "e", "t", "a", ".", "i", "n", "l", "i", "n", "e", ".", "2", "]", ":", " ", "m", NL>>)

\* the kinds of the elements of a list, those of the bodies of its blocks
\* included
RECURSIVE KindsWithin(_)
KindsWithin(elements) ==
    IF elements = <<>> THEN {}
    ELSE {Head(elements).kind}
         \cup (IF Head(elements).kind \in {"Message", "Details"}
               THEN KindsWithin(Head(elements).body) ELSE {})
         \cup KindsWithin(Tail(elements))

\* C25 (the claim as stated): both compilers have a rendering for every
\* kind of element, LinkCard included: in a build, the match of each
\* compiler has an arm for every kind of element of the document, and the
\* compile does not stop at an element left without a rendering.
C25_EveryKindRendered ==
    cpc # "build" =>
        /\ KindsWithin(md.elements) \subseteq ElementKinds
        /\ KindsWithin(md.elements) \subseteq QiitaArms
        /\ KindsWithin(md.elements) \subseteq ZennArms
        /\ cpc # "no_arm"

\* the same for the documents without a link card
C25_OtherKindsRendered ==
    "LinkCard" \notin KindsWithin(md.elements) =>
        /\ KindsWithin(md.elements) \subseteq QiitaArms \cap ZennArms
        /\ cpc # "no_arm"

\* ------------------------------------------------------------------------
\* Specifications: one for each component at work, the other two at rest
\* ------------------------------------------------------------------------

\* a text is being scanned; nothing is parsed or built
ScanSpecInit ==
    /\ ScanInit
    /\ file = <<>>
    /\ parser = Parser_new(<<>>)
    /\ ppc = "idle"
    /\ parsed_fm = NoFrontmatter
    /\ parse_result = NoParse
    /\ md = NoDocument
    /\ existing = <<>>
    /\ build_no = 1
    /\ cpc = "idle"
    /\ compiler = QiitaCompiler_new(<<>>)
    /\ hash_order = <<>>
    /\ next_element = 1
    /\ qiita_md = <<>>
    /\ world = <<>>
    /\ articles = NotWritten
    /\ public = NotWritten

\* a file is being parsed; nothing is scanned or built
ParseSpecInit ==
    /\ ParseInit
    /\ entry = "scan_body"
    /\ scanner = Scanner_new(<<>>)
    /\ spc = "idle"
    /\ frontmatter = <<>>
    /\ scan_result = NoResult
    /\ failed = 0
    /\ merged = 0
    /\ md = NoDocument
    /\ existing = <<>>
    /\ build_no = 1
    /\ cpc = "idle"
    /\ compiler = QiitaCompiler_new(<<>>)
    /\ hash_order = <<>>
    /\ next_element = 1
    /\ qiita_md = <<>>
    /\ world = <<>>
    /\ articles = NotWritten
    /\ public = NotWritten

\* a parsed document is being built; nothing is scanned or parsed
CompileSpecInit ==
    /\ CompileInit
    /\ entry = "scan_body"
    /\ scanner = Scanner_new(<<>>)
    /\ spc = "idle"
    /\ frontmatter = <<>>
    /\ scan_result = NoResult
    /\ failed = 0
    /\ merged = 0
    /\ file = <<>>
    /\ parser = Parser_new(<<>>)
    /\ ppc = "idle"
    /\ parsed_fm = NoFrontmatter
    /\ parse_result = NoParse

ScanSpec == ScanSpecInit /\ [][ScanNext]_vars

\* scan_file and scan_body run on one thread, with nothing to wait for: a
\* step that can be taken is taken.  The weak fairness of ScanFileHead and
\* of ScanTurn is written out, each with the condition under which the
\* action can be taken.
ScanFairSpec ==
    /\ ScanSpec
    /\ []<>(spc # "head") \/ []<><<ScanFileHead>>_vars
    /\ []<>(~(spc = "loop" /\ ~is_at_end(scanner))) \/ []<><<ScanTurn>>_vars
    /\ WF_vars(ScanReturn)

ParseSpec == ParseSpecInit /\ [][ParseNext]_vars

CompileSpec == CompileSpecInit /\ [][CompileNext]_vars

====
